---- MODULE Spec2Model ----
(***************************************************************************)
(* A model of xshell's two concurrent cores:                               *)
(*   - src/src/exec.rs: exec() and wait_deadline(): a child process, its   *)
(*     three pipes, the stdin writer, the stdout and stderr drain workers  *)
(*     and the waiting thread with its sleepy polling loop;                *)
(*   - src/src/gsl.rs: the global shell lock, a process-wide RwLock with a *)
(*     thread-local cache that makes it reentrant.                         *)
(* The two parts share no state, each has its own specification.           *)
(***************************************************************************)
EXTENDS Integers, Sequences, FiniteSets, TLC

(***************************************************************************)
(* Bounds of the model.                                                    *)
(***************************************************************************)
\* most bytes the child writes to one output stream
MaxOut == 4
\* capacity of an OS pipe, in bytes
PipeCap == 3
\* length of the drain workers' read buffer ([0u8; 4096] in the source)
BufLen == 2
\* most bytes of stdin_contents
MaxIn == 2
\* largest finite stream ceiling tried
MaxLimit == 2
\* the latest deadline tried
MaxDeadline == 1
\* how far the clock runs past the latest deadline, unless a sleeper still waits
MaxLate == 1

(***************************************************************************)
(* Option<T>, Result<T, E> and io::Error.                                  *)
(***************************************************************************)
None == << >>
Some(v) == << v >>
IsSome(o) == o # None
Unwrap(o) == o[1]

Ok(v) == << "Ok", v >>
Err(e) == << "Err", e >>
IsOk(r) == r # << >> /\ r[1] = "Ok"
IsErr(r) == r # << >> /\ r[1] = "Err"

\* io::Error values, told apart by where they arise
IoErrors == {"TimedOut", "BrokenPipe", "NotFound", "PermissionDenied", "ReadStdout", "ReadStderr",
             "WriteStdin", "WaitFailed", "NoChild"}
\* io::Error::kind(): only TimedOut and BrokenPipe are told apart by the code
Kind(e) == IF e \in {"TimedOut", "BrokenPipe"} THEN e ELSE "Other"

Min(a, b) == IF a < b THEN a ELSE b

\* the exit status of a child ended by the termination request
KILLED == 0 - 9

VARIABLES
    \* ---- exec(): arguments
    stdin_contents, \* Option<&[u8]>: None or Some(sequence of bytes)
    stdout_limit,   \* Option<usize>
    stderr_limit,   \* Option<usize>
    deadline,       \* Option<Instant>
    cmd,            \* the Cmd that runs: its method called and its ignore_status
    \* ---- the calling thread of exec(), which runs wait_deadline()
    pc,             \* where the calling thread is
    sleep_ms,       \* wait_deadline: the next sleep
    wake_at,        \* the instant the current sleep ends
    status,         \* what wait_deadline returned, << >> before it returns
    result,         \* ExecResult
    \* ---- the workers of thread::scope
    worker,         \* "in", "out", "err" -> "none" | "running" | "done"
    in_written,     \* bytes of stdin_contents written so far
    in_error, out_error, err_error,  \* None for Ok(()), Some(e) for Err(e)
    out_deque, err_deque,
    \* ---- the operating system: the child, its pipes, the clock
    plan,           \* what the child program does
    child,          \* the child process
    in_pipe,        \* bytes in the stdin pipe
    in_open,        \* the parent's end of the stdin pipe is open
    out_pipe, err_pipe,  \* bytes in the stdout and the stderr pipe
    now,            \* Instant::now()
    \* ---- history, read by no action
    out_seen, err_seen,  \* every byte the drain workers read, in order
    hist,           \* counts of system calls, the time of the child's own exit
    \* ---- env: the state of the process that pushd and pushenv change
    current_dir,    \* std::env::current_dir()
    environ,        \* key -> None (unset) or Some(value)
    scopes,         \* thread -> the live Pushd and Pushenv values of the thread, oldest first
    epc,            \* thread -> where the thread is in Pushd::new, Pushenv::new or a drop
    ehist,          \* history, read by no action
    \* ---- gsl: the global shell lock
    CACHE,          \* thread -> Cache (thread_local)
    LOCK,           \* the process-wide RwLock
    guards,         \* thread -> the live Guards of the thread, oldest first
    tpc,            \* thread -> where the thread is
    calls,          \* thread -> how many times it has called read() or write()
    ghist,          \* history, read by no action
    \* ---- Shell::create_temp_dir
    CNT,            \* static CNT: AtomicUsize
    dirs,           \* the directories xshell-tmp-dir-{n} that exist in the base directory
    mk,             \* thread -> where the thread is in create_temp_dir, and its locals
    mhist,          \* history, read by no action
    \* ---- Shell and Cmd: the environment
    shenv,          \* value (a Shell, or the Shell inside a Cmd) -> the map its env points to
    arcs,           \* the allocations: for each the set of values whose env points to it
    shist           \* history, read by no action

execVars == << stdin_contents, stdout_limit, stderr_limit, deadline, cmd, pc, sleep_ms, wake_at,
               status, result, worker, in_written, in_error, out_error, err_error,
               out_deque, err_deque, plan, child, in_pipe, in_open, out_pipe, err_pipe,
               now, out_seen, err_seen, hist >>
gslVars == << CACHE, LOCK, guards, tpc, calls, ghist >>
envVars == << current_dir, environ, scopes, epc, ehist >>
tmpVars == << CNT, dirs, mk, mhist >>
shVars == << shenv, arcs, shist >>
libVars == << tmpVars, shVars >>
vars == << execVars, gslVars, envVars, libVars >>

(***************************************************************************)
(* exec(): the arguments and the child programs tried.                     *)
(***************************************************************************)
Bytes(n) == [i \in 1..n |-> i]
Limits == {None} \cup {Some(c) : c \in 0..MaxLimit}
\* the k-th byte the child writes to stdout, to stderr
OutByte(k) == k
ErrByte(k) == 100 + k

\* What the child program does: it writes out_total bytes to stdout and err_total bytes
\* to stderr (order: all of stdout first, all of stderr first, or as they come) and reads
\* its stdin as it likes. With `finish` it exits only after all its writes; without, it
\* may exit at any moment, which covers every program with smaller totals.
Plans == [out_total : 0..MaxOut, err_total : 0..MaxOut, order : {"out_first", "err_first", "any"},
          finish : BOOLEAN]
\* the exit codes tried
ExitCodes == {0, 1}

ExecResultDefault == [stdout |-> << >>, stderr |-> << >>, status |-> None, error |-> None]

\* nothing has happened yet: no run, no timeout set
NoHistory ==
    [exit_time |-> None, exit_pc |-> "", kills |-> 0, waits |-> 0, faults |-> {},
     spawn_error |-> None, wait_error |-> None, polls |-> 0,
     runs |-> 0, started |-> 0, set_at |-> None, timeout |-> None, idle |-> 0]

\* the locals of exec() and the child before command.spawn()
CallState ==
    /\ sleep_ms = 1
    /\ wake_at = 0
    /\ status = << >>
    /\ result = ExecResultDefault
    /\ worker = [w \in {"in", "out", "err"} |-> "none"]
    /\ in_written = 0
    /\ in_error = None /\ out_error = None /\ err_error = None
    /\ out_deque = << >> /\ err_deque = << >>
    /\ child = [state |-> "none", out_left |-> 0, err_left |-> 0, in_read |-> 0, status |-> 0]
    /\ in_pipe = 0
    /\ in_open = FALSE
    /\ out_pipe = << >> /\ err_pipe = << >>
    /\ out_seen = << >> /\ err_seen = << >>

\* the state before command.spawn(), the arguments left open
InitCall ==
    /\ pc = "spawn"
    /\ CallState
    /\ now = 0
    /\ hist = NoHistory

\* exec() called on its own, by no method of Cmd
ExecCall == [method |-> "exec", ignore_status |-> FALSE]

InitExecWith(stdins, outLimits, errLimits, deadlines, plans) ==
    /\ stdin_contents \in stdins
    /\ stdout_limit \in outLimits
    /\ stderr_limit \in errLimits
    /\ deadline \in deadlines
    /\ plan \in plans
    /\ cmd = ExecCall
    /\ InitCall

(***************************************************************************)
(* exec(), lines 74-96: spawn the child with its three pipes and start the *)
(* workers of thread::scope.                                               *)
(***************************************************************************)
UNCHANGED_gsl == UNCHANGED << gslVars, envVars, libVars >>
UNCHANGED_args == UNCHANGED << stdin_contents, stdout_limit, stderr_limit, deadline, cmd, plan >>

\* the blocking wait() is used with a deadline too
WaitEntryBlocking == "wait"
\* who waits for the child: a plain wait() without deadline, else the polling loop
WaitEntry == IF deadline = None THEN "wait" ELSE "try_wait"

\* run_echo and run_interactive spawn the child with inherited streams and call
\* wait_deadline themselves: no pipe, no worker
Captures == cmd.method \notin {"run_echo", "run_interactive"}
\* exec.rs line 75: the stdin is piped when there are bytes to write, else the null device
StdinPiped == Captures /\ IsSome(stdin_contents)

SpawnOk ==
    /\ pc = "spawn"
    /\ child' = [state |-> "running", out_left |-> plan.out_total, err_left |-> plan.err_total,
                 in_read |-> 0, status |-> 0]
    /\ in_open' = StdinPiped
    /\ worker' = [in |-> IF StdinPiped THEN "running" ELSE "none",
                  out |-> IF Captures THEN "running" ELSE "none",
                  err |-> IF Captures THEN "running" ELSE "none"]
    /\ pc' = WaitEntry
    /\ UNCHANGED << sleep_ms, wake_at, status, result, in_written, in_error, out_error, err_error,
                    out_deque, err_deque, in_pipe, out_pipe, err_pipe, now, out_seen, err_seen, hist >>
    /\ UNCHANGED_args /\ UNCHANGED_gsl

\* the errors command.spawn() reports that are tried
SpawnErrors == {"NotFound", "PermissionDenied"}
\* every spawn failure is reported as the same error
SpawnErrorGeneric(e) == Some("NotFound")
\* line 81: result.error = Some(err)
SpawnErrorReported(e) == Some(e)

\* lines 78-83: command.spawn() fails with error e and exec returns
SpawnErr ==
    /\ pc = "spawn"
    /\ \E e \in SpawnErrors :
          /\ result' = [result EXCEPT !.error = SpawnErrorReported(e)]
          /\ hist' = [hist EXCEPT !.spawn_error = Some(e)]
    /\ pc' = "returned"
    /\ UNCHANGED << sleep_ms, wake_at, status, worker, in_written, in_error, out_error, err_error,
                    out_deque, err_deque, child, in_pipe, in_open, out_pipe, err_pipe, now,
                    out_seen, err_seen >>
    /\ UNCHANGED_args /\ UNCHANGED_gsl

(***************************************************************************)
(* The child process.                                                      *)
(***************************************************************************)
Running == child.state = "running"
\* the child's ends of the pipes are closed once it is gone
ChildGone == child.state \in {"exited", "reaped"}

\* the program is io::copy(stdin, stdout): it reads a chunk of its stdin, writes the chunk
\* to its stdout, and ends with Ok(()) when a read returns 0
CopiesStdin == plan.order = "copy"
\* the bytes the child has written to its stdout
Written == plan.out_total - child.out_left
\* a read of the child's stdin returns 0: nothing is in the pipe and its write end is
\* closed (the null device reads as empty from the start)
AtEndOfStream == in_pipe = 0 /\ ~in_open
\* the bytes the program is ready to write to stdout
WriteReady == IF CopiesStdin THEN child.in_read - Written ELSE child.out_left
\* the j-th byte the child writes to its stdout
ChildOutByte(j) == IF CopiesStdin THEN Unwrap(stdin_contents)[j] ELSE OutByte(j)
\* the program has done all it does
ProgramDone ==
    IF CopiesStdin THEN AtEndOfStream /\ WriteReady = 0
    ELSE child.out_left = 0 /\ child.err_left = 0
\* the exit statuses of the program: a copy that ends returns Ok(()); the programs run
\* by the methods of Cmd may also kill themselves (xecho -s)
ProgramExitCodes ==
    IF CopiesStdin THEN {0}
    ELSE IF cmd.method = "exec" THEN ExitCodes
    ELSE ExitCodes \cup {KILLED}

\* a program that writes one stream first does not touch the other before
MayWriteOut == plan.order = "err_first" => child.err_left = 0
MayWriteErr == plan.order = "out_first" => child.out_left = 0

\* write(2) on a pipe blocks while the pipe is full
ChildWriteOut ==
    /\ Running /\ WriteReady > 0 /\ MayWriteOut
    /\ Len(out_pipe) < PipeCap
    /\ \E k \in 1..Min(WriteReady, PipeCap - Len(out_pipe)) :
          LET done == Written IN
          /\ out_pipe' = out_pipe \o [i \in 1..k |-> ChildOutByte(done + i)]
          /\ child' = [child EXCEPT !.out_left = @ - k]
    /\ UNCHANGED << pc, sleep_ms, wake_at, status, result, worker, in_written, in_error, out_error,
                    err_error, out_deque, err_deque, in_pipe, in_open, err_pipe, now, out_seen,
                    err_seen, hist >>
    /\ UNCHANGED_args /\ UNCHANGED_gsl

ChildWriteErr ==
    /\ Running /\ child.err_left > 0 /\ MayWriteErr
    /\ Len(err_pipe) < PipeCap
    /\ \E k \in 1..Min(child.err_left, PipeCap - Len(err_pipe)) :
          LET done == plan.err_total - child.err_left IN
          /\ err_pipe' = err_pipe \o [i \in 1..k |-> ErrByte(done + i)]
          /\ child' = [child EXCEPT !.err_left = @ - k]
    /\ UNCHANGED << pc, sleep_ms, wake_at, status, result, worker, in_written, in_error, out_error,
                    err_error, out_deque, err_deque, in_pipe, in_open, out_pipe, now, out_seen,
                    err_seen, hist >>
    /\ UNCHANGED_args /\ UNCHANGED_gsl

\* the child reads what its stdin holds; a copying program has written its last chunk
ChildReadIn ==
    /\ Running /\ in_pipe > 0
    /\ CopiesStdin => WriteReady = 0
    /\ in_pipe' = 0
    /\ child' = [child EXCEPT !.in_read = @ + in_pipe]
    /\ UNCHANGED << pc, sleep_ms, wake_at, status, result, worker, in_written, in_error, out_error,
                    err_error, out_deque, err_deque, in_open, out_pipe, err_pipe, now, out_seen,
                    err_seen, hist >>
    /\ UNCHANGED_args /\ UNCHANGED_gsl

\* the child exits on its own
ChildExit ==
    /\ Running
    /\ plan.finish => ProgramDone
    /\ \E code \in ProgramExitCodes : child' = [child EXCEPT !.state = "exited", !.status = code]
    /\ hist' = [hist EXCEPT !.exit_time = Some(now), !.exit_pc = pc]
    /\ UNCHANGED << pc, sleep_ms, wake_at, status, result, worker, in_written, in_error, out_error,
                    err_error, out_deque, err_deque, in_pipe, in_open, out_pipe, err_pipe, now,
                    out_seen, err_seen >>
    /\ UNCHANGED_args /\ UNCHANGED_gsl

\* the clock; it is read only by wait_deadline with a deadline
Tick ==
    /\ pc \in {"try_wait", "check_deadline", "sleep"}
    /\ now < MaxDeadline + MaxLate \/ (pc = "sleep" /\ now < wake_at)
    /\ now' = now + 1
    /\ UNCHANGED << pc, sleep_ms, wake_at, status, result, worker, in_written, in_error, out_error,
                    err_error, out_deque, err_deque, child, in_pipe, in_open, out_pipe, err_pipe,
                    out_seen, err_seen, hist >>
    /\ UNCHANGED_args /\ UNCHANGED_gsl

(***************************************************************************)
(* exec(), line 99: the stdin writer, write_all(stdin_contents); the       *)
(* ChildStdin is dropped, which closes the pipe, when write_all returns.   *)
(***************************************************************************)
StdinLen == IF IsSome(stdin_contents) THEN Len(Unwrap(stdin_contents)) ELSE 0

\* one write(2) of write_all: it blocks while the pipe is full
InWrite ==
    /\ worker["in"] = "running" /\ in_written < StdinLen
    /\ Running /\ in_pipe < PipeCap
    /\ LET k == Min(StdinLen - in_written, PipeCap - in_pipe) IN
          /\ in_pipe' = in_pipe + k
          /\ in_written' = in_written + k
    /\ UNCHANGED << pc, sleep_ms, wake_at, status, result, worker, in_error, out_error,
                    err_error, out_deque, err_deque, child, in_open, out_pipe, err_pipe, now,
                    out_seen, err_seen, hist >>
    /\ UNCHANGED_args /\ UNCHANGED_gsl

\* the ChildStdin is kept until the scope ends
StdinHeldToScopeEnd == TRUE
\* line 99: the ChildStdin is a temporary of the worker's closure, dropped, and with it the
\* write end of the pipe closed, when write_all has returned
StdinOpenAfterWrite == FALSE

\* write_all returns Ok(()) after the last byte, or BrokenPipe once the child is gone
\* with bytes still to write
InEnd ==
    /\ worker["in"] = "running"
    /\ in_written = StdinLen \/ ChildGone
    /\ in_error' = IF in_written = StdinLen THEN None ELSE Some("BrokenPipe")
    /\ worker' = [worker EXCEPT !["in"] = "done"]
    /\ in_open' = StdinOpenAfterWrite
    /\ UNCHANGED << pc, sleep_ms, wake_at, status, result, in_written, out_error,
                    err_error, out_deque, err_deque, child, in_pipe, out_pipe, err_pipe, now,
                    out_seen, err_seen, hist >>
    /\ UNCHANGED_args /\ UNCHANGED_gsl

\* write_all returns another error of write(2)
InFail ==
    /\ worker["in"] = "running" /\ in_written < StdinLen
    /\ in_error' = Some("WriteStdin")
    /\ worker' = [worker EXCEPT !["in"] = "done"]
    /\ in_open' = StdinOpenAfterWrite
    /\ UNCHANGED << pc, sleep_ms, wake_at, status, result, in_written, out_error,
                    err_error, out_deque, err_deque, child, in_pipe, out_pipe, err_pipe, now,
                    out_seen, err_seen, hist >>
    /\ UNCHANGED_args /\ UNCHANGED_gsl

(***************************************************************************)
(* exec(), lines 101-132: the two drain workers.                           *)
(***************************************************************************)
\* a ceiling of 0 taken for no ceiling
ExcessZeroUnlimited(len, limit) ==
    IF limit = None \/ limit = Some(0) THEN 0
    ELSE IF len > Unwrap(limit) THEN len - Unwrap(limit) ELSE 0
\* len.saturating_sub(limit.unwrap_or(usize::MAX))
Excess(len, limit) ==
    IF limit = None THEN 0
    ELSE IF len > Unwrap(limit) THEN len - Unwrap(limit) ELSE 0

\* a drain from the wrong end: deque.drain(len - excess..)
DrainNewest(deque, excess) == SubSeq(deque, 1, Len(deque) - excess)
\* deque.drain(..excess)
Drain(deque, excess) == SubSeq(deque, excess + 1, Len(deque))

\* deque.extend(chunk), then the trim under `if excess > 0`
ExtendTrim(deque, chunk, limit) ==
    LET extended == deque \o chunk
        excess == Excess(Len(extended), limit)
    IN  IF excess > 0 THEN Drain(extended, excess) ELSE extended

\* read(&mut buffer) on a pipe that holds bytes: what is there, up to the buffer
ReadLen(pipe) == Min(Len(pipe), BufLen)

\* the stdout is drained only after the stdin writer has returned
OutRunsAfterStdin == worker["out"] = "running" /\ worker["in"] # "running"
\* the stdout worker may run: it was spawned in the scope and has not returned
OutRuns == worker["out"] = "running"
\* a sequential drain: stderr is read only after the stdout worker has returned
ErrRunsAfterOut == worker["err"] = "running" /\ worker["out"] = "done"
\* the stderr worker may run
ErrRuns == worker["err"] = "running"

\* one turn of the stdout worker's loop with n > 0
OutRead ==
    /\ OutRuns /\ Len(out_pipe) > 0
    /\ LET n == ReadLen(out_pipe)
           chunk == SubSeq(out_pipe, 1, n)
       IN  /\ out_pipe' = SubSeq(out_pipe, n + 1, Len(out_pipe))
           /\ out_deque' = ExtendTrim(out_deque, chunk, stdout_limit)
           /\ out_seen' = out_seen \o chunk
    /\ UNCHANGED << pc, sleep_ms, wake_at, status, result, worker, in_written, in_error, out_error,
                    err_error, err_deque, child, in_pipe, in_open, err_pipe, now,
                    err_seen, hist >>
    /\ UNCHANGED_args /\ UNCHANGED_gsl

\* the stdout worker returns Ok(()): n == 0, the pipe is empty and the child's end closed
OutEof ==
    /\ OutRuns /\ Len(out_pipe) = 0 /\ ChildGone
    /\ out_error' = None
    /\ worker' = [worker EXCEPT !["out"] = "done"]
    /\ UNCHANGED << pc, sleep_ms, wake_at, status, result, in_written, in_error,
                    err_error, out_deque, err_deque, child, in_pipe, in_open, out_pipe, err_pipe,
                    now, out_seen, err_seen, hist >>
    /\ UNCHANGED_args /\ UNCHANGED_gsl

\* the stdout worker returns the error of a read (the `?` of line 105)
OutFail ==
    /\ OutRuns
    /\ out_error' = Some("ReadStdout")
    /\ worker' = [worker EXCEPT !["out"] = "done"]
    /\ UNCHANGED << pc, sleep_ms, wake_at, status, result, in_written, in_error,
                    err_error, out_deque, err_deque, child, in_pipe, in_open, out_pipe, err_pipe,
                    now, out_seen, err_seen, hist >>
    /\ UNCHANGED_args /\ UNCHANGED_gsl

\* one turn of the stderr worker's loop with n > 0
ErrRead ==
    /\ ErrRuns /\ Len(err_pipe) > 0
    /\ LET n == ReadLen(err_pipe)
           chunk == SubSeq(err_pipe, 1, n)
       IN  /\ err_pipe' = SubSeq(err_pipe, n + 1, Len(err_pipe))
           /\ err_deque' = ExtendTrim(err_deque, chunk, stderr_limit)
           /\ err_seen' = err_seen \o chunk
    /\ UNCHANGED << pc, sleep_ms, wake_at, status, result, worker, in_written, in_error, out_error,
                    err_error, out_deque, child, in_pipe, in_open, out_pipe, now,
                    out_seen, hist >>
    /\ UNCHANGED_args /\ UNCHANGED_gsl

\* the stderr worker returns Ok(())
ErrEof ==
    /\ ErrRuns /\ Len(err_pipe) = 0 /\ ChildGone
    /\ err_error' = None
    /\ worker' = [worker EXCEPT !["err"] = "done"]
    /\ UNCHANGED << pc, sleep_ms, wake_at, status, result, in_written, in_error,
                    out_error, out_deque, err_deque, child, in_pipe, in_open, out_pipe, err_pipe,
                    now, out_seen, err_seen, hist >>
    /\ UNCHANGED_args /\ UNCHANGED_gsl

\* the stderr worker returns the error of a read (the `?` of line 121)
ErrFail ==
    /\ ErrRuns
    /\ err_error' = Some("ReadStderr")
    /\ worker' = [worker EXCEPT !["err"] = "done"]
    /\ UNCHANGED << pc, sleep_ms, wake_at, status, result, in_written, in_error,
                    out_error, out_deque, err_deque, child, in_pipe, in_open, out_pipe, err_pipe,
                    now, out_seen, err_seen, hist >>
    /\ UNCHANGED_args /\ UNCHANGED_gsl

(***************************************************************************)
(* wait_deadline(), lines 42-65, run by the calling thread in the scope.   *)
(***************************************************************************)
sleep_ms_max == 64

\* the deadline is taken for passed at every test
DeadlineAlwaysPassed == TRUE
\* the deadline test is passed one instant late
DeadlinePassedLate == now > Unwrap(deadline) + 1
\* line 57: Instant::now() > deadline
DeadlinePassed == now > Unwrap(deadline)

\* the child's exit is not reported once the deadline has passed
SeenExitedInTime == child.state = "exited" /\ ~DeadlinePassed
\* line 54: try_wait() returned Some(status)
SeenExited == child.state = "exited"

\* after the kill the status of the final wait is returned
FinalStatusOfWait == Ok(child.status)
\* line 60: after the kill the result is TimedOut
FinalStatus == Err("TimedOut")

\* what is left unchanged by every step of wait_deadline
UNCHANGED_io == UNCHANGED << result, worker, in_written, in_error, out_error, err_error, out_deque,
                             err_deque, in_pipe, in_open, out_pipe, err_pipe, now, out_seen, err_seen >>

\* line 47: child.wait() without deadline returns once the child has exited, and reaps it
Wait ==
    /\ pc = "wait" /\ child.state = "exited"
    /\ child' = [child EXCEPT !.state = "reaped"]
    /\ status' = Ok(child.status)
    /\ hist' = [hist EXCEPT !.waits = @ + 1]
    /\ pc' = "join"
    /\ UNCHANGED << sleep_ms, wake_at >>
    /\ UNCHANGED_io /\ UNCHANGED_args /\ UNCHANGED_gsl

\* the errors of wait() and try_wait() that are tried
WaitErrors == {"WaitFailed", "NoChild"}
\* an error of the wait is reported as a timeout
WaitErrorAsTimeout(e) == Err("TimedOut")
\* lines 47 and 53: the error of wait(), and of try_wait() through `?`, is returned
WaitErrorReturned(e) == Err(e)

\* line 47: child.wait() fails
WaitFail ==
    /\ pc = "wait"
    /\ \E e \in WaitErrors :
          /\ status' = WaitErrorReturned(e)
          /\ hist' = [hist EXCEPT !.waits = @ + 1, !.faults = @ \cup {"wait"},
                                  !.wait_error = Some(e)]
    /\ pc' = "join"
    /\ UNCHANGED << sleep_ms, wake_at, child >>
    /\ UNCHANGED_io /\ UNCHANGED_args /\ UNCHANGED_gsl

\* line 53: child.try_wait() finds the child exited and reaps it, or finds it running
TryWait ==
    /\ pc = "try_wait"
    /\ hist' = [hist EXCEPT !.polls = @ + 1]
    /\ IF SeenExited
       THEN /\ child' = [child EXCEPT !.state = "reaped"]
            /\ status' = Ok(child.status)
            /\ pc' = "join"
       ELSE /\ pc' = "check_deadline"
            /\ UNCHANGED << child, status >>
    /\ UNCHANGED << sleep_ms, wake_at >>
    /\ UNCHANGED_io /\ UNCHANGED_args /\ UNCHANGED_gsl

\* line 53: child.try_wait() fails, `?` returns the error
TryWaitFail ==
    /\ pc = "try_wait"
    /\ \E e \in WaitErrors :
          /\ status' = WaitErrorReturned(e)
          /\ hist' = [hist EXCEPT !.faults = @ \cup {"try_wait"}, !.wait_error = Some(e),
                                  !.polls = @ + 1]
    /\ pc' = "join"
    /\ UNCHANGED << sleep_ms, wake_at, child >>
    /\ UNCHANGED_io /\ UNCHANGED_args /\ UNCHANGED_gsl

\* lines 57 and 62: past the deadline go on to kill, else start the sleep
CheckDeadline ==
    /\ pc = "check_deadline"
    /\ IF DeadlinePassed
       THEN pc' = "kill" /\ UNCHANGED wake_at
       ELSE pc' = "sleep" /\ wake_at' = now + sleep_ms
    /\ UNCHANGED << sleep_ms, status, child, hist >>
    /\ UNCHANGED_io /\ UNCHANGED_args /\ UNCHANGED_gsl

\* line 58: child.kill() ends a running child; on a child that has exited it does nothing
Kill ==
    /\ pc = "kill"
    /\ child' = IF Running THEN [child EXCEPT !.state = "exited", !.status = KILLED] ELSE child
    /\ hist' = [hist EXCEPT !.kills = @ + 1]
    /\ pc' = "final_wait"
    /\ UNCHANGED << sleep_ms, wake_at, status >>
    /\ UNCHANGED_io /\ UNCHANGED_args /\ UNCHANGED_gsl

\* line 58: child.kill() fails, `let _ =` drops the error
KillFail ==
    /\ pc = "kill"
    /\ hist' = [hist EXCEPT !.kills = @ + 1, !.faults = @ \cup {"kill"}]
    /\ pc' = "final_wait"
    /\ UNCHANGED << sleep_ms, wake_at, status, child >>
    /\ UNCHANGED_io /\ UNCHANGED_args /\ UNCHANGED_gsl

\* lines 59-60: child.wait() reaps the child, its status is dropped, TimedOut is returned
FinalWait ==
    /\ pc = "final_wait" /\ child.state = "exited"
    /\ child' = [child EXCEPT !.state = "reaped"]
    /\ status' = FinalStatus
    /\ hist' = [hist EXCEPT !.waits = @ + 1]
    /\ pc' = "join"
    /\ UNCHANGED << sleep_ms, wake_at >>
    /\ UNCHANGED_io /\ UNCHANGED_args /\ UNCHANGED_gsl

\* lines 59-60: child.wait() fails, `let _ =` drops the error
FinalWaitFail ==
    /\ pc = "final_wait"
    /\ status' = FinalStatus
    /\ hist' = [hist EXCEPT !.waits = @ + 1, !.faults = @ \cup {"final_wait"}]
    /\ pc' = "join"
    /\ UNCHANGED << sleep_ms, wake_at, child >>
    /\ UNCHANGED_io /\ UNCHANGED_args /\ UNCHANGED_gsl

\* the sleep doubles without end
NextSleepUncapped(ms) == ms * 2
\* line 63: sleep_ms = min(sleep_ms * 2, sleep_ms_max)
NextSleep(ms) == Min(ms * 2, sleep_ms_max)

\* lines 62-63: the sleep ends, not before wake_at; the next sleep doubles up to the cap
Wake ==
    /\ pc = "sleep" /\ now >= wake_at
    /\ sleep_ms' = NextSleep(sleep_ms)
    /\ pc' = "try_wait"
    /\ UNCHANGED << wake_at, status, child, hist >>
    /\ UNCHANGED_io /\ UNCHANGED_args /\ UNCHANGED_gsl

(***************************************************************************)
(* exec(), lines 135-159: the scope ends when wait_deadline has returned   *)
(* and every worker is joined; then the outcome is assembled.              *)
(***************************************************************************)
\* the scope ends without joining the workers
NoBarrier == TRUE
AllJoined == \A w \in {"in", "out", "err"} : worker[w] # "running"

\* an error of a worker is kept when the waiter fails too
ResultErrorWorkersWin ==
    LET e1 == IF IsSome(err_error) THEN err_error ELSE None
        e2 == IF IsSome(out_error) THEN out_error ELSE e1
        e3 == IF IsSome(in_error) /\ Kind(Unwrap(in_error)) # "BrokenPipe" THEN in_error ELSE e2
    IN  IF IsErr(status) /\ e3 = None THEN Some(status[2]) ELSE e3
\* every error of the stdin writer is taken over, BrokenPipe too
ResultErrorWithBrokenPipe ==
    LET e1 == IF IsSome(err_error) THEN err_error ELSE None
        e2 == IF IsSome(out_error) THEN out_error ELSE e1
        e3 == IF IsSome(in_error) THEN in_error ELSE e2
    IN  IF IsErr(status) THEN Some(status[2]) ELSE e3
\* the error of the waiter is not taken over
ResultErrorWithoutWaiter ==
    LET e1 == IF IsSome(err_error) THEN err_error ELSE None
        e2 == IF IsSome(out_error) THEN out_error ELSE e1
    IN  IF IsSome(in_error) /\ Kind(Unwrap(in_error)) # "BrokenPipe" THEN in_error ELSE e2
\* lines 137-154: the error of the outcome, each later assignment overwriting the earlier
ResultError ==
    LET e1 == IF IsSome(err_error) THEN err_error ELSE None
        e2 == IF IsSome(out_error) THEN out_error ELSE e1
        e3 == IF IsSome(in_error) /\ Kind(Unwrap(in_error)) # "BrokenPipe" THEN in_error ELSE e2
    IN  IF IsErr(status) THEN Some(status[2]) ELSE e3

\* the output is dropped when the outcome has an error
ResultOutputUnlessError(deque) == IF ResultError = None THEN deque ELSE << >>
\* lines 156-157: result.stdout = out_deque.into(), result.stderr = err_deque.into()
ResultOutput(deque) == deque

Join ==
    /\ pc = "join" /\ AllJoined
    /\ result' = [stdout |-> ResultOutput(out_deque), stderr |-> ResultOutput(err_deque),
                  status |-> IF IsOk(status) THEN Some(status[2]) ELSE None,
                  error |-> ResultError]
    /\ pc' = "returned"
    /\ UNCHANGED << sleep_ms, wake_at, status, worker, in_written, in_error, out_error, err_error,
                    out_deque, err_deque, child, in_pipe, in_open, out_pipe, err_pipe, now,
                    out_seen, err_seen, hist >>
    /\ UNCHANGED_args /\ UNCHANGED_gsl

NextExec ==
    \/ SpawnOk \/ SpawnErr
    \/ ChildWriteOut \/ ChildWriteErr \/ ChildReadIn \/ ChildExit \/ Tick
    \/ InWrite \/ InEnd \/ InFail
    \/ OutRead \/ OutEof \/ OutFail
    \/ ErrRead \/ ErrEof \/ ErrFail
    \/ Wait \/ WaitFail \/ TryWait \/ TryWaitFail \/ CheckDeadline
    \/ Kill \/ KillFail \/ FinalWait \/ FinalWaitFail \/ Wake
    \/ Join

\* neither pushd nor pushenv is called
\* neither pushd nor pushenv is called
InitEnvCold ==
    /\ current_dir = << >> /\ environ = << >> /\ scopes = << >> /\ epc = << >>
    /\ ehist = << >>
\* create_temp_dir is not called
InitTmpIdle == CNT = 0 /\ dirs = {} /\ mk = << >> /\ mhist = << >>
\* no Shell is made
InitShIdle == shenv = << >> /\ arcs = {} /\ shist = << >>
InitLibIdle == InitTmpIdle /\ InitShIdle
InitEnvIdle == InitEnvCold /\ InitLibIdle
\* the lock is not used
InitGslCold ==
    /\ CACHE = << >> /\ LOCK = << >> /\ guards = << >> /\ tpc = << >> /\ calls = << >>
    /\ ghist = << >>
InitGslIdle == InitGslCold /\ InitEnvIdle

(***************************************************************************)
(* The calls of exec() checked. The full product of arguments and child    *)
(* programs is too large to enumerate, so the initial states are a union   *)
(* of slices, each ranging over one dimension in full.                     *)
(***************************************************************************)
Stdins == {None} \cup {Some(Bytes(n)) : n \in 0..MaxIn}
\* the clock reads 0 when exec is called: the deadline 0 - 1 is already in the past
Deadlines == {None} \cup {Some(d) : d \in (0 - 1)..MaxDeadline}
\* the program that writes the most, in any order, and exits when it likes
FreePlan == [out_total |-> MaxOut, err_total |-> MaxOut, order |-> "any", finish |-> FALSE]
\* programs that write little
SmallPlan == [out_total |-> 1, err_total |-> 1, order |-> "any", finish |-> FALSE]

\* every pair of ceilings, the most output, no stdin, no deadline
InitStreams == InitExecWith({None}, Limits, Limits, {None}, {FreePlan})
\* every deadline, little output, no stdin
InitTiming == InitExecWith({None}, {None}, {None}, Deadlines, {SmallPlan})
\* every stdin, little output
InitStdin == InitExecWith(Stdins, {None}, {None}, {None}, {SmallPlan})
\* stdin, a ceiling below the output and a deadline together
InitMixed == InitExecWith({Some(Bytes(1))}, {Some(0)}, {Some(1)}, {Some(0)}, {SmallPlan})

InitExec == InitStreams \/ InitTiming \/ InitStdin \/ InitMixed
Init == InitExec /\ InitGslIdle
Spec == Init /\ [][NextExec]_vars

(***************************************************************************)
(* Liveness: the threads and the child are scheduled by the OS, so every   *)
(* step of the code that stays possible is taken; failures of system calls *)
(* may happen but need not.                                                *)
(***************************************************************************)
\* programs that write one stream in full before the other, more than a pipe holds, and
\* then exit
OrderedPlans ==
    {[out_total |-> MaxOut, err_total |-> e, order |-> "out_first", finish |-> TRUE] : e \in {0, 1, MaxOut}}
    \cup {[out_total |-> o, err_total |-> MaxOut, order |-> "err_first", finish |-> TRUE] : o \in {0, 1, MaxOut}}
\* both streams captured without ceiling or with a ceiling no output exceeds, no deadline
InitOrdered == InitExecWith({None, Some(Bytes(MaxIn))}, {None, Some(MaxOut)}, {None, Some(MaxOut)},
                            {None}, OrderedPlans)
InitLive == (InitOrdered \/ InitMixed) /\ InitGslIdle

FairExec ==
    /\ WF_vars(SpawnOk \/ SpawnErr)
    /\ WF_vars(ChildWriteOut) /\ WF_vars(ChildWriteErr) /\ WF_vars(ChildExit)
    /\ WF_vars(Tick)
    /\ WF_vars(InWrite) /\ WF_vars(InEnd)
    /\ WF_vars(OutRead) /\ WF_vars(OutEof)
    /\ WF_vars(ErrRead) /\ WF_vars(ErrEof)
    /\ WF_vars(Wait) /\ WF_vars(TryWait) /\ WF_vars(CheckDeadline) /\ WF_vars(Kill)
    /\ WF_vars(FinalWait) /\ WF_vars(Wake)
    /\ WF_vars(Join)
FairSpec == InitLive /\ [][NextExec]_vars /\ FairExec

\* A child that may stall: it need not write, read its stdin or exit. Only the code of
\* exec and the clock are scheduled. The stdin given is more than a pipe holds.
\* a program that writes nothing
QuietPlan == [out_total |-> 0, err_total |-> 0, order |-> "any", finish |-> FALSE]
InitStalling ==
    \/ InitExecWith({None}, {None}, {None}, Deadlines, {SmallPlan})
    \/ InitExecWith({Some(Bytes(PipeCap + 1))}, {None}, {None}, {Some(0)}, {QuietPlan})
InitStall == InitStalling /\ InitGslIdle
FairCode ==
    /\ WF_vars(SpawnOk \/ SpawnErr)
    /\ WF_vars(Tick)
    /\ WF_vars(InWrite) /\ WF_vars(InEnd)
    /\ WF_vars(OutRead) /\ WF_vars(OutEof)
    /\ WF_vars(ErrRead) /\ WF_vars(ErrEof)
    /\ WF_vars(Wait) /\ WF_vars(TryWait) /\ WF_vars(CheckDeadline) /\ WF_vars(Kill)
    /\ WF_vars(FinalWait) /\ WF_vars(Wake)
    /\ WF_vars(Join)
FairSpecStall == InitStall /\ [][NextExec]_vars /\ FairCode

\* A deadline far enough for the sleep to reach its cap and stay there: the sleeps before
\* the cap add up to 2 * sleep_ms_max - 1, and one more capped sleep follows. The clock advances while the waiter sleeps.
FarDeadline == 3 * sleep_ms_max
InitPolling ==
    \/ InitExecWith({None}, {None}, {None}, {Some(FarDeadline)}, {QuietPlan})
    \/ InitExecWith({Some(Bytes(1))}, {None}, {None}, {None}, {SmallPlan})
    \/ InitMixed
InitPoll == InitPolling /\ InitGslIdle
SpecPoll == InitPoll /\ [][NextExec]_vars

(***************************************************************************)
(* Cmd: the run methods. Each calls exec (run_echo and run_interactive call *)
(* wait_deadline on a child with inherited streams) and turns the outcome  *)
(* into its own return value.                                              *)
(***************************************************************************)
\* the retained suffix of a stream that is not returned in full: 128 KiB in the source,
\* here a length the outputs tried exceed
STREAM_SUFFIX_SIZE == MaxLimit
Methods == {"run", "read", "read_stderr", "output", "run_echo", "run_interactive"}
\* the ceilings a method passes to exec
StdoutLimitOf(m) == IF m \in {"read", "output"} THEN None ELSE Some(STREAM_SUFFIX_SIZE)
StderrLimitOf(m) == IF m \in {"read_stderr", "output"} THEN None ELSE Some(STREAM_SUFFIX_SIZE)

InitCmdWith(methods, flags, stdins, deadlines, plans) ==
    /\ cmd \in [method : methods, ignore_status : flags]
    /\ stdin_contents \in stdins
    /\ stdout_limit = StdoutLimitOf(cmd.method)
    /\ stderr_limit = StderrLimitOf(cmd.method)
    /\ deadline \in deadlines
    /\ plan \in plans
    /\ InitCall

\* ExitStatus::success()
Success(st) == st = 0

\* with ignore_status nothing is an error
check_exec_result_ignoring_all ==
    IF cmd.ignore_status THEN Ok(<< >>)
    ELSE IF IsSome(result.status) /\ ~Success(Unwrap(result.status)) THEN Err("Status")
    ELSE IF IsSome(result.error)
         THEN IF Kind(Unwrap(result.error)) = "TimedOut" THEN Err("Timeout") ELSE Err("Io")
         ELSE Ok(<< >>)
\* check_exec_result: the status is looked at first, then the error
check_exec_result ==
    IF IsSome(result.status) /\ ~Success(Unwrap(result.status)) /\ ~cmd.ignore_status
    THEN Err("Status")
    ELSE IF IsSome(result.error)
         THEN IF Kind(Unwrap(result.error)) = "TimedOut" THEN Err("Timeout") ELSE Err("Io")
         ELSE Ok(<< >>)

\* the bytes tried: a line feed, a carriage return, a letter, and a byte that occurs in
\* no UTF-8 text
NL == 10
CR == 13
Letter == 97
NotUtf8 == 255
Alphabet == {NL, CR, Letter, NotUtf8}
\* String::from_utf8 accepts the stream
Utf8Valid(stream) == \A i \in 1..Len(stream) : stream[i] # NotUtf8
EndsWith(text, b) == Len(text) > 0 /\ text[Len(text)] = b
Contains(text, b) == \E i \in 1..Len(text) : text[i] = b
Pop(text) == SubSeq(text, 1, Len(text) - 1)

\* chomp: the final line feed of an output of exactly one line is stripped, and a
\* carriage return before it
chomp(stream) ==
    IF ~Utf8Valid(stream) THEN Err("Utf8")
    ELSE IF EndsWith(stream, NL) /\ ~Contains(Pop(stream), NL)
         THEN LET text == Pop(stream) IN Ok(IF EndsWith(text, CR) THEN Pop(text) ELSE text)
         ELSE Ok(stream)

\* run_echo, run_interactive: a failure of spawn or of wait_deadline is an Io error, then
\* the status is tested
RunEchoReturn ==
    IF IsSome(result.error) THEN Err("Io")
    ELSE IF ~Success(Unwrap(result.status)) THEN Err("Status")
    ELSE Ok(<< >>)

\* what the method returns, once exec has returned
MethodReturn ==
    CASE cmd.method = "run" -> check_exec_result
      [] cmd.method = "read" ->
            IF IsErr(check_exec_result) THEN check_exec_result ELSE chomp(result.stdout)
      [] cmd.method = "read_stderr" ->
            IF IsErr(check_exec_result) THEN check_exec_result ELSE chomp(result.stderr)
      [] cmd.method = "output" ->
            IF IsErr(check_exec_result) THEN check_exec_result
            ELSE Ok([status |-> Unwrap(result.status), stdout |-> result.stdout,
                     stderr |-> result.stderr])
      [] cmd.method \in {"run_echo", "run_interactive"} -> RunEchoReturn
      [] OTHER -> Ok(result)

\* read() of a child that copies its stdin to its stdout (xecho -i): every short stdin
\* over the alphabet, and stdin longer than the two pipes and a chunk of the child hold
\* together, of one line and of two
CatLen == 3 * PipeCap + 1
ShortInputs == UNION {[1..n -> Alphabet] : n \in 0..MaxIn}
LongInputs == {[i \in 1..CatLen |-> Letter],
               [i \in 1..CatLen |-> IF i = CatLen THEN NL ELSE Letter],
               [i \in 1..CatLen |-> IF i \in {2, CatLen} THEN NL ELSE Letter]}
CatInputs == ShortInputs \cup LongInputs
CopyPlan(n) == [out_total |-> n, err_total |-> 0, order |-> "copy", finish |-> TRUE]
InitCat ==
    \/ \E s \in CatInputs :
          InitCmdWith({"read"}, {FALSE}, {Some(s)}, {None}, {CopyPlan(Len(s))})
    \/ InitCmdWith({"read"}, {FALSE}, {None}, {None}, {CopyPlan(0)})
InitReadCat == (InitCat \/ InitMixed) /\ InitGslIdle
\* the child is scheduled too, its reads of stdin included
FairCat == FairExec /\ WF_vars(ChildReadIn)
FairSpecCat == InitReadCat /\ [][NextExec]_vars /\ FairCat

\* every method with and without ignore_status, with and without a deadline, those that
\* do not capture with a child that writes to no pipe; and run() with stdin
CapturingMethods == {"run", "read", "read_stderr", "output"}
InitMethods ==
    \/ InitCmdWith(CapturingMethods, BOOLEAN, {None}, {None, Some(0)}, {SmallPlan})
    \/ InitCmdWith(Methods \ CapturingMethods, BOOLEAN, {None}, {None, Some(0)}, {QuietPlan})
    \/ InitCmdWith({"run"}, {TRUE}, {Some(Bytes(1))}, {None}, {SmallPlan})
InitCmd == InitMethods /\ InitGslIdle
SpecCmd == InitCmd /\ [][NextExec]_vars

(***************************************************************************)
(* Cmd::timeout, Cmd::set_timeout and the runs of one Cmd and its clones.  *)
(* The Cmd is built first (pc = "cmd"); time passes, a timeout may be set, *)
(* and the Cmd, or a clone of it, which has the same fields, is run, more  *)
(* than once.                                                              *)
(***************************************************************************)
\* the longest timeout, in ms
MaxTimeout == 1
\* how long the clock runs while no command runs, in ms
MaxIdle == 1
\* how many runs follow the first
MaxRuns == 1
Timeouts == 0..MaxTimeout

\* the variables of one run, the clock and the history apart
callVars == << sleep_ms, wake_at, status, result, worker, in_written, in_error, out_error,
               err_error, out_deque, err_deque, child, in_pipe, in_open, out_pipe, err_pipe,
               out_seen, err_seen >>

\* the Cmd is built and not yet run
InitCmdBuilt ==
    /\ cmd = [method |-> "run", ignore_status |-> FALSE]
    /\ stdin_contents = None
    /\ plan = SmallPlan
    /\ stdout_limit = StdoutLimitOf(cmd.method)
    /\ stderr_limit = StderrLimitOf(cmd.method)
    /\ deadline = None
    /\ pc = "cmd"
    /\ CallState
    /\ now = 0
    /\ hist = NoHistory

\* time passes between the calls
CmdTick ==
    /\ pc = "cmd" /\ hist.idle < MaxIdle
    /\ now' = now + 1
    /\ hist' = [hist EXCEPT !.idle = @ + 1]
    /\ UNCHANGED << pc, callVars >>
    /\ UNCHANGED_args /\ UNCHANGED_gsl

\* lib.rs line 850: self.deadline = timeout.map(|it| Instant::now() + it)
SetTimeout(d) ==
    /\ pc = "cmd" /\ hist.set_at = None
    /\ deadline' = Some(now + d)
    /\ hist' = [hist EXCEPT !.set_at = Some(now), !.timeout = Some(d)]
    /\ UNCHANGED << pc, now, callVars, stdin_contents, stdout_limit, stderr_limit, cmd, plan >>
    /\ UNCHANGED_gsl

\* the deadline is counted from the start of the run
RunDeadlineFromStart == IF IsSome(hist.timeout) THEN Some(now + Unwrap(hist.timeout)) ELSE None
\* lib.rs line 893: exec is given self.deadline
RunDeadline == deadline

\* lib.rs lines 885-893: run(&self) calls exec with the fields of the Cmd
Run ==
    /\ pc = "cmd"
    /\ pc' = "spawn"
    /\ deadline' = RunDeadline
    /\ hist' = [hist EXCEPT !.started = now]
    /\ UNCHANGED << now, callVars, stdin_contents, stdout_limit, stderr_limit, cmd, plan >>
    /\ UNCHANGED_gsl

\* run(&self) has returned and left the Cmd as it was; it, or a clone (#[derive(Clone)],
\* lib.rs line 697), can be run again
RunAgain ==
    /\ pc = "returned" /\ hist.runs < MaxRuns
    /\ pc' = "cmd"
    /\ sleep_ms' = 1
    /\ wake_at' = 0
    /\ status' = << >>
    /\ result' = ExecResultDefault
    /\ worker' = [w \in {"in", "out", "err"} |-> "none"]
    /\ in_written' = 0
    /\ in_error' = None /\ out_error' = None /\ err_error' = None
    /\ out_deque' = << >> /\ err_deque' = << >>
    /\ child' = [state |-> "none", out_left |-> 0, err_left |-> 0, in_read |-> 0, status |-> 0]
    /\ in_pipe' = 0
    /\ in_open' = FALSE
    /\ out_pipe' = << >> /\ err_pipe' = << >>
    /\ out_seen' = << >> /\ err_seen' = << >>
    /\ hist' = [NoHistory EXCEPT !.runs = hist.runs + 1, !.set_at = hist.set_at,
                                 !.timeout = hist.timeout, !.idle = hist.idle]
    /\ UNCHANGED now
    /\ UNCHANGED_args /\ UNCHANGED_gsl

\* the steps of exec() for a Cmd without stdin_contents: no stdin writer is spawned, and
\* the child's stdin is the null device
NextExecNoStdin ==
    \/ SpawnOk \/ SpawnErr
    \/ ChildWriteOut \/ ChildWriteErr \/ ChildExit \/ Tick
    \/ OutRead \/ OutEof \/ OutFail
    \/ ErrRead \/ ErrEof \/ ErrFail
    \/ Wait \/ WaitFail \/ TryWait \/ TryWaitFail \/ CheckDeadline
    \/ Kill \/ KillFail \/ FinalWait \/ FinalWaitFail \/ Wake
    \/ Join
NextTimeout ==
    \/ CmdTick
    \/ \E d \in Timeouts : SetTimeout(d)
    \/ Run
    \/ RunAgain
    \/ NextExecNoStdin
InitTimeout == InitCmdBuilt /\ InitGslIdle
SpecTimeout == InitTimeout /\ [][NextTimeout]_vars

(***************************************************************************)
(* gsl.rs: the global shell lock.                                          *)
(*                                                                         *)
(* Each thread runs some sequence of read(), write() and drops of the      *)
(* guards it holds, MaxCalls calls at most. A step is one call or one drop *)
(* up to the point where the thread blocks in the RwLock: the cache is     *)
(* thread-local, so no other thread sees the steps in between.             *)
(***************************************************************************)
Threads == {"A", "B", "C"}
\* most calls of read() and write() by one thread
MaxCalls == 2
\* the calls of the third thread, which contends for the lock without deep nesting
MaxContenderCalls == 1
Contender == "C"

\* enum Cache, lines 36-40
CacheRead(n) == << "Read", n >>
CacheWrite == << "Write" >>
IsRead(c) == c[1] = "Read"
Readers(c) == c[2]

\* struct Guard(Option<Repr>) and enum Repr, lines 23-30
GuardNone == "None"              \* Guard(None)
GuardReadSome == "ReadSome"      \* Guard(Some(Repr::Read(Some(r_guard))))
GuardReadNone == "ReadNone"      \* Guard(Some(Repr::Read(None)))
GuardWrite == "Write"            \* Guard(Some(Repr::Write(w_guard)))

NoThread == "none"
\* what the RwLock does with a reader that arrives while a writer waits is left open by
\* the standard library: it lets the reader in, or makes it wait behind the writer
Policies == {"readers_pass", "writers_first"}

InitGsl ==
    /\ CACHE = [t \in Threads |-> CacheRead(0)]
    /\ LOCK \in [writer : {NoThread}, readers : {[t \in Threads |-> 0]}, policy : Policies]
    /\ guards = [t \in Threads |-> << >>]
    /\ tpc = [t \in Threads |-> "idle"]
    /\ calls = [t \in Threads |-> 0]
    /\ ghist = [reverse |-> [t \in Threads |-> TRUE], behind |-> [t \in Threads |-> NoThread],
                panic |-> [t \in Threads |-> ""], before |-> [t \in Threads |-> << >>]]

UNCHANGED_exec == UNCHANGED << execVars, envVars, libVars >>

\* threads blocked in rw_lock::write()
WaitingWriters == {t \in Threads : tpc[t] = "write"}
NoReaders == \A t \in Threads : LOCK.readers[t] = 0

\* the RwLock gives the write lock to whoever asks
LockAlwaysFree == TRUE
\* rw_lock::write(), lines 49-51: the RwLock gives the write lock
CanLockWrite == LOCK.writer = NoThread /\ NoReaders
\* rw_lock::read(), lines 52-54: the RwLock gives a read lock
CanLockRead ==
    /\ LOCK.writer = NoThread
    /\ LOCK.policy = "writers_first" => WaitingWriters = {}

MayCall(t) == tpc[t] = "idle" /\ calls[t] < (IF t = Contender THEN MaxContenderCalls ELSE MaxCalls)

\* a guard that pretends to be a nested read guard
ReentrantGuardRead == GuardReadNone
\* lines 72 and 95: the guard a thread gets while its cache is Write
ReentrantGuard == GuardNone

\* read() never calls rw_lock::read()
ReadNeverLocks(c) == FALSE
\* read() calls rw_lock::read() for nested reads too
ReadAlwaysLocks(c) == TRUE
\* line 98: read() calls rw_lock::read() when the thread has no reader yet
ReadTakesLock(c) == Readers(c) = 0
\* what the thread has of the lock: its cache and its locks in the RwLock
Snapshot(t) == [cache |-> CACHE[t], readers |-> LOCK.readers[t], writer |-> LOCK.writer = t]
\* the thread receives guard g; the history keeps what it had before the call
Push(t, g) ==
    /\ guards' = [guards EXCEPT ![t] = Append(@, g)]
    /\ ghist' = [ghist EXCEPT !.before[t] = Append(@, Snapshot(t))]

\* read() with Cache::Read(readers), readers > 0 (lines 105-110): only the count changes
ReadNested(t) ==
    /\ CACHE' = [CACHE EXCEPT ![t] = CacheRead(Readers(CACHE[t]) + 1)]
    /\ Push(t, GuardReadNone)
    /\ UNCHANGED << LOCK, tpc >>

\* read(), lines 88-113, up to the call of rw_lock::read()
CallRead(t) ==
    /\ MayCall(t)
    /\ calls' = [calls EXCEPT ![t] = @ + 1]
    /\ IF ~IsRead(CACHE[t])
       THEN \* Cache::Write, lines 90-96
            Push(t, ReentrantGuard) /\ UNCHANGED << CACHE, LOCK, tpc >>
       ELSE IF ReadTakesLock(CACHE[t])
       THEN \* line 101
            /\ tpc' = [tpc EXCEPT ![t] = "read"]
            /\ ghist' = [ghist EXCEPT !.behind[t] = LOCK.writer]
            /\ UNCHANGED << CACHE, LOCK, guards >>
       ELSE ReadNested(t)
    /\ UNCHANGED_exec

\* read(), lines 101-104: rw_lock::read() returns, the cache becomes Read(1)
LockRead(t) ==
    /\ tpc[t] = "read" /\ CanLockRead
    /\ LOCK' = [LOCK EXCEPT !.readers[t] = @ + 1]
    /\ CACHE' = [CACHE EXCEPT ![t] = CacheRead(1)]
    /\ Push(t, GuardReadSome)
    /\ tpc' = [tpc EXCEPT ![t] = "idle"]
    /\ UNCHANGED calls
    /\ UNCHANGED_exec

\* the message of the assertion of lines 75-78
WritePanic == "calling write() with an active read guard on the same thread might deadlock"
\* write() goes on to rw_lock::write() whatever the cache
WriteNeverPanics(c) == FALSE
\* lines 75-78: assert_eq!(readers, 0, ..) fails
WritePanics(c) == Readers(c) # 0

\* write(), lines 67-85, up to the call of rw_lock::write(); the assertion of line 75
\* panics with readers > 0 and the thread unwinds
WriteCall(t) ==
    /\ MayCall(t)
    /\ calls' = [calls EXCEPT ![t] = @ + 1]
    /\ IF ~IsRead(CACHE[t])
       THEN \* Cache::Write, lines 69-73
            Push(t, ReentrantGuard) /\ UNCHANGED << CACHE, LOCK, tpc >>
       ELSE /\ IF WritePanics(CACHE[t])
               THEN /\ tpc' = [tpc EXCEPT ![t] = "unwinding"]
                    /\ ghist' = [ghist EXCEPT !.panic[t] = WritePanic]
               ELSE /\ tpc' = [tpc EXCEPT ![t] = "write"]
                    /\ UNCHANGED ghist
            /\ UNCHANGED << CACHE, LOCK, guards >>

\* a thread calls write() on its own
CallWrite(t) == WriteCall(t) /\ UNCHANGED_exec

\* the cache is left at Read(0) when the write lock is taken
CacheLeftRead == CacheRead(0)
\* line 81: cache.set(Cache::Write)
CacheAfterWriteLock == CacheWrite

\* write(), lines 79-82: rw_lock::write() returns, the cache becomes Write
LockWrite(t) ==
    /\ tpc[t] = "write" /\ CanLockWrite
    /\ LOCK' = [LOCK EXCEPT !.writer = t]
    /\ CACHE' = [CACHE EXCEPT ![t] = CacheAfterWriteLock]
    /\ Push(t, GuardWrite)
    /\ tpc' = [tpc EXCEPT ![t] = "idle"]
    /\ UNCHANGED calls
    /\ UNCHANGED_exec

(***************************************************************************)
(* impl Drop for Guard, lines 115-137. When drop() returns or panics the   *)
(* fields of the guard are dropped, which releases the RwLock guard in it. *)
(***************************************************************************)
\* the assertions of lines 121, 123-127 and 131 fail
DropPanics(c, g) ==
    CASE g = GuardNone -> FALSE
      [] g \in {GuardReadSome, GuardReadNone} ->
            ~IsRead(c) \/ ((g = GuardReadSome) # (Readers(c) = 1))
      [] g = GuardWrite -> c # CacheWrite

\* the message of the panic of drop(): lines 121, 123-127, 131, and the overflow of line 128
PanicMessage(c, g) ==
    CASE g = GuardWrite -> "assertion failed: cache is Write"
      [] ~IsRead(c) -> "had both a reader and a writer"
      [] (g = GuardReadSome) # (Readers(c) = 1) -> "read guards dropped in the wrong order"
      [] OTHER -> "attempt to subtract with overflow"

\* the cache is left at Write
CacheStaysWrite == CacheWrite
\* the cache a write guard leaves, line 132
CacheAfterWriteDrop == CacheRead(0)
\* the count of readers is left as it is
ReadersKept(readers) == readers
\* the number of readers a read guard leaves, line 128
ReadersAfterDrop(readers) == readers - 1

\* the caches drop() may leave when no assertion fails; `readers - 1` with readers = 0
\* panics in a build with overflow checks ("panic") and wraps to usize::MAX, written
\* Read(-1), in a build without
DropResults(c, g) ==
    CASE g = GuardNone -> {c}
      [] g \in {GuardReadSome, GuardReadNone} ->
            IF Readers(c) = 0 THEN {"panic", CacheRead(0 - 1)}
            ELSE {CacheRead(ReadersAfterDrop(Readers(c)))}
      [] g = GuardWrite -> {CacheAfterWriteDrop}

\* every way drop() of guard g may end with the cache c: "panic" or the new cache
DropOutcomes(c, g) == IF DropPanics(c, g) THEN {"panic"} ELSE DropResults(c, g)

\* every read guard gives back a read lock
ReleaseOnAnyRead(lock, t, g) ==
    CASE g \in {GuardReadSome, GuardReadNone} -> [lock EXCEPT !.readers[t] = @ - 1]
      [] g = GuardWrite -> [lock EXCEPT !.writer = NoThread]
      [] OTHER -> lock
\* the RwLock after the guard's fields are dropped
Release(lock, t, g) ==
    CASE g = GuardReadSome -> [lock EXCEPT !.readers[t] = @ - 1]
      [] g = GuardWrite -> [lock EXCEPT !.writer = NoThread]
      [] OTHER -> lock

Remove(seq, i) == [j \in 1..(Len(seq) - 1) |-> IF j < i THEN seq[j] ELSE seq[j + 1]]

\* The thread drops the i-th guard it holds. A panic makes the thread unwind, which
\* drops the guards it still holds, newest first; a panic while unwinding aborts the
\* process.
\* drop() of the i-th guard of the thread and the drop of the guard's fields; `unwinds`:
\* the thread is panicking already
GuardDrop(t, i, unwinds) ==
    LET g == guards[t][i] IN
          /\ guards' = [guards EXCEPT ![t] = Remove(@, i)]
          /\ LOCK' = Release(LOCK, t, g)
          /\ \E o \in DropOutcomes(CACHE[t], g) :
                IF o = "panic"
                THEN /\ tpc' = IF unwinds THEN [u \in Threads |-> "aborted"]
                                ELSE [tpc EXCEPT ![t] = "unwinding"]
                     /\ ghist' = [ghist EXCEPT !.reverse[t] = @ /\ i = Len(guards[t]),
                                               !.before[t] = Remove(@, i),
                                               !.panic[t] = PanicMessage(CACHE[t], g)]
                     /\ UNCHANGED CACHE
                ELSE /\ CACHE' = [CACHE EXCEPT ![t] = o]
                     /\ ghist' = [ghist EXCEPT !.reverse[t] = @ /\ i = Len(guards[t]),
                                               !.before[t] = Remove(@, i)]
                     /\ tpc' = IF unwinds THEN [tpc EXCEPT ![t] = "unwinding"] ELSE tpc

Drop(t, i) ==
    /\ i \in 1..Len(guards[t])
    /\ tpc[t] = "idle" \/ (tpc[t] = "unwinding" /\ i = Len(guards[t]))
    /\ GuardDrop(t, i, tpc[t] = "unwinding")
    /\ UNCHANGED calls
    /\ UNCHANGED_exec

\* the thread drops the guard it took last
DropNewest(t) == Drop(t, Len(guards[t]))

NextGsl ==
    \E t \in Threads :
        \/ CallRead(t) \/ LockRead(t)
        \/ CallWrite(t) \/ LockWrite(t)
        \/ \E i \in 1..Len(guards[t]) : Drop(t, i)

\* exec() is not running
InitExecIdle == InitExecWith({None}, {None}, {None}, {None}, {SmallPlan})

InitLock == InitGsl /\ InitExecIdle /\ InitEnvIdle
SpecGsl == InitLock /\ [][NextGsl]_vars

\* The OS schedules every thread, the RwLock wakes a thread it can serve, and every
\* thread ends the scope of the guard it took last.
FairGsl == \A t \in Threads : WF_vars(LockRead(t)) /\ WF_vars(LockWrite(t)) /\ WF_vars(DropNewest(t))
FairSpecGsl == InitLock /\ [][NextGsl]_vars /\ FairGsl

(***************************************************************************)
(* env.rs: pushd and pushenv. Each takes the write guard of the global     *)
(* shell lock, changes the current directory or a variable of the process  *)
(* and returns a value that holds the guard; the drop of the value checks  *)
(* that the state is as the value left it, restores it, and then the drop  *)
(* of the value's fields releases the guard. A step is one part of a call  *)
(* that another thread can tell from the next: the call of gsl::write(),   *)
(* the rest of new(), drop(), the drop of the fields.                      *)
(***************************************************************************)
\* The directories that exist are the root, << >>, and the chains of Name below it, at
\* most MaxDepth deep. A path is the sequence of its components.
Name == "d"
MaxDepth == 2
Exists(path) == Len(path) <= MaxDepth
InitialDir == << Name >>
\* the arguments of pushd tried: the directory Name of the current directory, and ".."
Parent == ".."
DirArgs == {<< Name >>, << Parent >>}
\* std::env::set_current_dir(arg), then std::env::current_dir(): the argument resolved
\* against the current directory; the parent of the root is the root
Resolve(dir, arg) ==
    IF arg = << Parent >>
    THEN IF dir = << >> THEN << >> ELSE SubSeq(dir, 1, Len(dir) - 1)
    ELSE dir \o arg

\* the variable and the values tried
Keys == {"SPICA"}
Values == {"1", "2"}

Idle == [op |-> "idle"]
InitEnv ==
    /\ current_dir = InitialDir
    /\ environ \in [Keys -> {None, Some("0")}]
    /\ scopes = [t \in Threads |-> << >>]
    /\ epc = [t \in Threads |-> Idle]
    /\ ehist = [panic |-> [t \in Threads |-> ""], reverse |-> [t \in Threads |-> TRUE],
                at_call |-> [t \in Threads |-> << >>], at_start |-> environ]

\* the history keeps the state of the process right before the call
AtCall(t) == [ehist EXCEPT !.at_call[t] = Append(@, [dir |-> current_dir, env |-> environ])]

\* Pushd::new, line 47: gsl::write() is called
PushdCall(t, d) ==
    /\ epc[t].op = "idle"
    /\ WriteCall(t)
    /\ epc' = [epc EXCEPT ![t] = [op |-> "pushd", dir |-> d]]
    /\ ehist' = AtCall(t)
    /\ UNCHANGED << current_dir, environ, scopes >>
    /\ UNCHANGED << execVars, libVars >>

\* Pushd::new, lines 48-51, once gsl::write() has returned (cwd() takes and drops a read
\* guard, which is Guard(None) under the write guard). When set_current_dir fails the
\* guard is dropped and the error returned.
PushdNew(t) ==
    /\ epc[t].op = "pushd" /\ tpc[t] = "idle"
    /\ LET prev_dir == current_dir
           dir == Resolve(current_dir, epc[t].dir)
       IN  IF Exists(dir)
           THEN /\ current_dir' = dir
                /\ scopes' = [scopes EXCEPT ![t] =
                                Append(@, [kind |-> "Pushd", prev_dir |-> prev_dir, dir |-> dir])]
                /\ UNCHANGED << gslVars, ehist >>
           ELSE /\ GuardDrop(t, Len(guards[t]), FALSE)
                /\ ehist' = [ehist EXCEPT !.at_call[t] = SubSeq(@, 1, Len(@) - 1)]
                /\ UNCHANGED << current_dir, scopes, calls >>
    /\ epc' = [epc EXCEPT ![t] = Idle]
    /\ UNCHANGED environ
    /\ UNCHANGED << execVars, libVars >>

\* Pushenv::new, line 77: gsl::write() is called
PushenvCall(t, k, v) ==
    /\ epc[t].op = "idle"
    /\ WriteCall(t)
    /\ epc' = [epc EXCEPT ![t] = [op |-> "pushenv", key |-> k, value |-> v]]
    /\ ehist' = AtCall(t)
    /\ UNCHANGED << current_dir, environ, scopes >>
    /\ UNCHANGED << execVars, libVars >>

\* Pushenv::new, lines 78-80
PushenvNew(t) ==
    /\ epc[t].op = "pushenv" /\ tpc[t] = "idle"
    /\ LET key == epc[t].key
           prev_value == environ[key]
       IN  /\ environ' = [environ EXCEPT ![key] = Some(epc[t].value)]
           /\ scopes' = [scopes EXCEPT ![t] =
                           Append(@, [kind |-> "Pushenv", key |-> key,
                                      prev_value |-> prev_value, value |-> epc[t].value])]
    /\ epc' = [epc EXCEPT ![t] = Idle]
    /\ UNCHANGED << current_dir, ehist >>
    /\ UNCHANGED gslVars
    /\ UNCHANGED << execVars, libVars >>

\* the assertions of lines 56-64 and 86-97 hold
AsLeft(s) ==
    IF s.kind = "Pushd" THEN current_dir = s.dir ELSE environ[s.key] = Some(s.value)
\* the messages of the assertions
ChangedConcurrently(s) ==
    IF s.kind = "Pushd" THEN "current directory was changed concurrently"
    ELSE "environmental variable was changed concurrently"

\* the drop goes back to the directory the process started in
DirInitial(s) == InitialDir
\* line 65: set_current_dir(&self.prev_dir)
DirRestored(s) == s.prev_dir
\* a variable that was unset before keeps the value pushed
ValueNeverRemoved(s) == IF IsSome(s.prev_value) THEN s.prev_value ELSE Some(s.value)
\* lines 98-101: set_var to the previous value, or remove_var when there was none
ValueRestored(s) == IF IsSome(s.prev_value) THEN s.prev_value ELSE None

\* impl Drop for Pushd, lines 54-67, and for Pushenv, lines 84-103: drop(&mut self) of
\* the i-th value of the thread. A failed assertion panics; a panic while the thread
\* unwinds aborts the process.
DropScope(t, i) ==
    /\ epc[t].op = "idle"
    /\ i \in 1..Len(scopes[t])
    /\ tpc[t] = "idle" \/ (tpc[t] = "unwinding" /\ i = Len(scopes[t]))
    /\ LET s == scopes[t][i] IN
          IF AsLeft(s)
          THEN /\ IF s.kind = "Pushd"
                  THEN current_dir' = DirRestored(s) /\ UNCHANGED environ
                  ELSE environ' = [environ EXCEPT ![s.key] = ValueRestored(s)]
                       /\ UNCHANGED current_dir
               /\ epc' = [epc EXCEPT ![t] = [op |-> "drop", i |-> i,
                                             panics |-> tpc[t] = "unwinding"]]
               /\ ehist' = [ehist EXCEPT !.reverse[t] = @ /\ i = Len(scopes[t])]
               /\ UNCHANGED tpc
          ELSE /\ IF tpc[t] = "unwinding"
                  THEN tpc' = [u \in Threads |-> "aborted"] /\ UNCHANGED epc
                  ELSE /\ epc' = [epc EXCEPT ![t] = [op |-> "drop", i |-> i, panics |-> TRUE]]
                       /\ UNCHANGED tpc
               /\ ehist' = [ehist EXCEPT !.reverse[t] = @ /\ i = Len(scopes[t]),
                                         !.panic[t] = ChangedConcurrently(s)]
               /\ UNCHANGED << current_dir, environ >>
    /\ UNCHANGED << CACHE, LOCK, guards, calls, ghist, scopes >>
    /\ UNCHANGED << execVars, libVars >>

\* after drop() has returned or panicked the fields of the value are dropped: its guard
DropFields(t) ==
    /\ epc[t].op = "drop" /\ tpc[t] # "aborted"
    /\ GuardDrop(t, epc[t].i, epc[t].panics)
    /\ scopes' = [scopes EXCEPT ![t] = Remove(@, epc[t].i)]
    /\ ehist' = [ehist EXCEPT !.at_call[t] = Remove(@, epc[t].i)]
    /\ epc' = [epc EXCEPT ![t] = Idle]
    /\ UNCHANGED << current_dir, environ, calls >>
    /\ UNCHANGED << execVars, libVars >>

\* the threads that call pushd and pushenv: one that nests, one that contends
EnvThreads == {"A", Contender}

NextEnv ==
    \E t \in EnvThreads :
        \/ \E d \in DirArgs : PushdCall(t, d)
        \/ \E k \in Keys, v \in Values : PushenvCall(t, k, v)
        \/ LockWrite(t)
        \/ PushdNew(t) \/ PushenvNew(t)
        \/ \E i \in 1..Len(scopes[t]) : DropScope(t, i)
        \/ DropFields(t)

\* no thread calls read(): the policy of the RwLock towards readers makes no difference
InitShell == InitGsl /\ LOCK.policy = "readers_pass" /\ InitExecIdle /\ InitEnv /\ InitLibIdle
SpecEnv == InitShell /\ [][NextEnv]_vars

(***************************************************************************)
(* Shell::create_temp_dir, lib.rs lines 614-631 (fs.rs mktemp_d, lines     *)
(* 100-117, is the same loop). Threads call it concurrently; the base      *)
(* directory is shared with other processes, which make directories of the *)
(* same names. A TempDir that is dropped removes its directory.            *)
(***************************************************************************)
\* the try_count at which a failure is returned: stands for 1024
MaxTries == 1
\* calls of create_temp_dir by thread A; thread B calls it once
MaxTmpCalls == 2
\* directories other processes make
MaxForeign == 1
TmpThreads == {"A", "B"}
\* the largest value the counter takes
MaxCnt == (MaxTmpCalls + 1) * (MaxTries + 1)

TmpIdle == [at |-> "idle", try_count |-> 0, cnt |-> 0, ret |-> None]
InitTmp ==
    /\ CNT = 0
    /\ dirs = {}
    /\ mk = [t \in TmpThreads |-> TmpIdle]
    /\ mhist = [calls |-> [t \in TmpThreads |-> 0], used |-> {}, used_twice |-> {},
                returned |-> {}, returned_twice |-> {}, foreign |-> 0,
                failed |-> [t \in TmpThreads |-> 0]]

UNCHANGED_tmp == UNCHANGED << execVars, gslVars, envVars, shVars >>

\* create_temp_dir is called
TempCall(t) ==
    /\ mk[t].at = "idle" /\ mhist.calls[t] < (IF t = "A" THEN MaxTmpCalls ELSE 1)
    /\ mk' = [mk EXCEPT ![t] = [TmpIdle EXCEPT !.at = "base"]]
    /\ mhist' = [mhist EXCEPT !.calls[t] = @ + 1, !.failed[t] = 0]
    /\ UNCHANGED << CNT, dirs >>
    /\ UNCHANGED_tmp

\* lines 615-616: self.create_dir(&base)? makes the base directory or finds it
BaseOk(t) ==
    /\ mk[t].at = "base"
    /\ mk' = [mk EXCEPT ![t].at = "fetch", ![t].try_count = 0]
    /\ UNCHANGED << CNT, dirs, mhist >>
    /\ UNCHANGED_tmp

\* line 616: create_dir fails and `?` returns its error
BaseErr(t) ==
    /\ mk[t].at = "base"
    /\ mk' = [mk EXCEPT ![t].at = "returned", ![t].ret = Some(Err("create_dir"))]
    /\ UNCHANGED << CNT, dirs, mhist >>
    /\ UNCHANGED_tmp

\* the counter is left as it is
FetchAddNothing(c) == c
\* line 623: CNT.fetch_add(1, Ordering::Relaxed)
FetchAdd(c) == c + 1

\* line 623: one atomic step takes the value of the counter and advances it
Fetch(t) ==
    /\ mk[t].at = "fetch"
    /\ mk' = [mk EXCEPT ![t].at = "create", ![t].cnt = CNT]
    /\ CNT' = FetchAdd(CNT)
    /\ mhist' = [mhist EXCEPT !.used = @ \cup {CNT},
                              !.used_twice = @ \cup (mhist.used \cap {CNT})]
    /\ UNCHANGED dirs
    /\ UNCHANGED_tmp

\* lines 625-626: fs::create_dir made the directory, which was not there
CreateOk(t) ==
    /\ mk[t].at = "create" /\ mk[t].cnt \notin dirs
    /\ dirs' = dirs \cup {mk[t].cnt}
    /\ mk' = [mk EXCEPT ![t].at = "returned", ![t].ret = Some(Ok(mk[t].cnt))]
    /\ mhist' = [mhist EXCEPT !.returned = @ \cup {mk[t].cnt},
                              !.returned_twice = @ \cup (mhist.returned \cap {mk[t].cnt})]
    /\ UNCHANGED CNT
    /\ UNCHANGED_tmp

\* lines 627-628: fs::create_dir failed, because the directory exists or for any other
\* reason; the failure at try_count 1024 is returned, every other one is counted
CreateErr(t) ==
    /\ mk[t].at = "create"
    /\ IF mk[t].try_count = MaxTries
       THEN mk' = [mk EXCEPT ![t].at = "returned", ![t].ret = Some(Err("create_dir"))]
       ELSE mk' = [mk EXCEPT ![t].at = "fetch", ![t].try_count = @ + 1]
    /\ mhist' = [mhist EXCEPT !.failed[t] = @ + 1]
    /\ UNCHANGED << CNT, dirs >>
    /\ UNCHANGED_tmp

\* the caller is done with what was returned; a TempDir removes its directory when dropped
TempDrop(t) ==
    /\ mk[t].at = "returned"
    /\ dirs' = IF IsOk(Unwrap(mk[t].ret)) THEN dirs \ {Unwrap(mk[t].ret)[2]} ELSE dirs
    /\ mk' = [mk EXCEPT ![t] = TmpIdle]
    /\ UNCHANGED << CNT, mhist >>
    /\ UNCHANGED_tmp

\* the names an attempt can still meet: the one a thread is about to make, and the next
\* values of the counter
Ahead == {mk[t].cnt : t \in {u \in TmpThreads : mk[u].at = "create"}} \cup (CNT..(CNT + 1))
\* another process makes a directory of one of these names
Foreign(n) ==
    /\ n \in Ahead
    /\ n \notin dirs /\ mhist.foreign < MaxForeign
    /\ dirs' = dirs \cup {n}
    /\ mhist' = [mhist EXCEPT !.foreign = @ + 1]
    /\ UNCHANGED << CNT, mk >>
    /\ UNCHANGED_tmp

NextTmp ==
    \/ \E t \in TmpThreads : \/ TempCall(t) \/ BaseOk(t) \/ BaseErr(t) \/ Fetch(t)
                              \/ CreateOk(t) \/ CreateErr(t) \/ TempDrop(t)
    \/ \E n \in 0..(MaxCnt + 1) : Foreign(n)
InitTemp == InitTmp /\ InitGslCold /\ InitExecIdle /\ InitEnvCold /\ InitShIdle
SpecTmp == InitTemp /\ [][NextTmp]_vars

(***************************************************************************)
(* Shell and Cmd: the environment. A Shell holds env: Arc<HashMap>; a Cmd  *)
(* holds a Shell, cloned from the one it was made with. Cloning a Shell or *)
(* a Cmd clones the Arc, which shares the map; every change goes through   *)
(* Arc::make_mut. The process environment is std::env, the variable        *)
(* environ.                                                                *)
(***************************************************************************)
VarKeys == {"v1", "v2"}
\* the value given to a variable; the process has the value "0" for the variables it has
VarValues == {"1"}
Shells == {"sh", "cloned_sh"}
Cmds == {"cmd", "cloned_cmd"}
Handles == Shells \cup Cmds
EmptyMap == [k \in VarKeys |-> None]

\* Shell::new, lines 386-389: env is Default::default(); the process has some environment
InitSh ==
    /\ shenv = [h \in Handles |-> EmptyMap]
    /\ arcs = {{"sh"}}
    /\ shist = [removed |-> {}, cleared |-> FALSE, after |-> {}, spawned |-> FALSE]
    /\ environ \in [VarKeys -> {None, Some("0")}]
    /\ current_dir = << >> /\ scopes = << >> /\ epc = << >> /\ ehist = << >>

UNCHANGED_sh == UNCHANGED << execVars, gslVars, tmpVars, current_dir, scopes, epc, ehist >>

\* the value exists
Made(h) == h \in UNION arcs
\* the values whose field env points to the same allocation as that of h
Sharing(h) == CHOOSE a \in arcs : h \in a
\* Arc::strong_count
StrongCount(h) == Cardinality(Sharing(h))
\* the map the value sees
Seen(h) == shenv[h]

\* the map is changed where it is, shared or not
MakeMutInPlace(class, h) == class
\* Arc::make_mut: the allocation itself when nothing else points to it, else a new one
\* holding a copy of the map; given here as the values that point to it afterwards, where
\* class is the set of values that point to the allocation of h before
MakeMut(class, h) == IF Cardinality(class) = 1 THEN class ELSE {h}

\* h.env, pointing to the same allocation as the values in class, is made mutable and its
\* map changed to m
MutateShared(h, class, m) ==
    LET mine == MakeMut(class, h)
    IN  /\ shenv' = [g \in Handles |-> IF g \in mine THEN m ELSE shenv[g]]
        /\ arcs' = ((arcs \ {class \ {h}, class}) \cup {mine, class \ mine}) \ {{}}
\* Arc::make_mut(&mut h.env) followed by a change of the map to m
Mutate(h, m) == MutateShared(h, Sharing(h), m)

\* the Arc is cloned: g points to the allocation h points to
ArcClone(h, g) ==
    /\ shenv' = [shenv EXCEPT ![g] = shenv[h]]
    /\ arcs' = (arcs \ {Sharing(h)}) \cup {Sharing(h) \cup {g}}

\* the history is kept of this command
Tracked == "cmd"
\* the history of the command when its environment was changed: the variables removed
\* and not set since, whether the environment was cleared, and the variables set since
Changed(c, removed, cleared, after) ==
    IF c = Tracked
    THEN shist' = [removed |-> removed, cleared |-> cleared,
                   after |-> IF cleared THEN after ELSE {}, spawned |-> FALSE]
    ELSE UNCHANGED shist

\* #[derive(Clone)] of Shell, line 376: the Arc is cloned
ShellClone(h, g) ==
    /\ Made(h) /\ ~Made(g)
    /\ ArcClone(h, g)
    /\ UNCHANGED << shist, environ >>
    /\ UNCHANGED_sh

\* Shell::set_var, lines 470-475
SetVar(h, k, v) ==
    /\ Made(h)
    /\ Mutate(h, [Seen(h) EXCEPT ![k] = Some(v)])
    /\ UNCHANGED << shist, environ >>
    /\ UNCHANGED_sh

\* Shell::with_var, lines 480-487: the Arc is cloned, so that one more points to the map,
\* and make_mut is called on the clone
WithVar(h, g, k, v) ==
    /\ Made(h) /\ ~Made(g)
    /\ MutateShared(g, Sharing(h) \cup {g}, [Seen(h) EXCEPT ![k] = Some(v)])
    /\ UNCHANGED << shist, environ >>
    /\ UNCHANGED_sh

\* Cmd::new, lines 736-749: sh: sh.clone()
CmdNew(h, c) ==
    /\ Made(h) /\ ~Made(c)
    /\ ArcClone(h, c)
    /\ UNCHANGED << shist, environ >>
    /\ UNCHANGED_sh

\* #[derive(Clone)] of Cmd, line 697
CmdClone(c, d) ==
    /\ Made(c) /\ ~Made(d)
    /\ ArcClone(c, d)
    /\ UNCHANGED << shist, environ >>
    /\ UNCHANGED_sh

\* Cmd::env, lines 787-793
CmdEnv(c, k, v) ==
    /\ Made(c)
    /\ Mutate(c, [Seen(c) EXCEPT ![k] = Some(v)])
    /\ Changed(c, shist.removed \ {k}, shist.cleared, shist.after \cup {k})
    /\ UNCHANGED environ
    /\ UNCHANGED_sh

\* Cmd::envs, lines 796-805: the map is extended by the pairs given
CmdEnvs(c, keys, v) ==
    /\ Made(c)
    /\ Mutate(c, [k \in VarKeys |-> IF k \in keys THEN Some(v) ELSE Seen(c)[k]])
    /\ Changed(c, shist.removed \ keys, shist.cleared, shist.after \cup keys)
    /\ UNCHANGED environ
    /\ UNCHANGED_sh

\* Cmd::env_remove, lines 808-814: the entry is removed from the map
CmdEnvRemove(c, k) ==
    /\ Made(c)
    /\ Mutate(c, [Seen(c) EXCEPT ![k] = None])
    /\ Changed(c, shist.removed \cup {k}, shist.cleared, shist.after \ {k})
    /\ UNCHANGED environ
    /\ UNCHANGED_sh

\* Cmd::env_clear, lines 817-820: the map is emptied
CmdEnvClear(c) ==
    /\ Made(c)
    /\ Mutate(c, EmptyMap)
    /\ Changed(c, shist.removed, TRUE, {})
    /\ UNCHANGED environ
    /\ UNCHANGED_sh

\* Command::envs, given the map, adds its entries to the environment the child inherits
\* from the process
ChildEnv(c) == [k \in VarKeys |-> IF Seen(c)[k] # None THEN Seen(c)[k] ELSE environ[k]]

\* Cmd::to_command, lines 1043-1049, and the spawn of the child
ToCommand(c) ==
    /\ Made(c) /\ c = Tracked /\ ~shist.spawned
    /\ shist' = [shist EXCEPT !.spawned = TRUE]
    /\ UNCHANGED << shenv, arcs, environ >>
    /\ UNCHANGED_sh

\* the step is taken through the value h
ThroughShell(h) ==
    \/ ShellClone("sh", h)
    \/ \E k \in VarKeys, v \in VarValues : SetVar(h, k, v)
    \/ \E k \in VarKeys, v \in VarValues : WithVar("sh", h, k, v)
ThroughCmd(c) ==
    \/ \E h \in Shells : CmdNew(h, c)
    \/ CmdClone("cmd", c)
    \/ \E k \in VarKeys, v \in VarValues : CmdEnv(c, k, v)
    \/ \E keys \in SUBSET VarKeys, v \in VarValues : CmdEnvs(c, keys, v)
    \/ \E k \in VarKeys : CmdEnvRemove(c, k)
    \/ CmdEnvClear(c)
    \/ ToCommand(c)

NextVars ==
    \/ ShellClone("sh", "cloned_sh")
    \/ \E h \in Shells, k \in VarKeys, v \in VarValues : SetVar(h, k, v)
    \/ \E k \in VarKeys, v \in VarValues : WithVar("sh", "cloned_sh", k, v)
    \/ \E h \in Shells : CmdNew(h, "cmd")
    \/ CmdClone("cmd", "cloned_cmd")
    \/ \E c \in Cmds, k \in VarKeys, v \in VarValues : CmdEnv(c, k, v)
    \/ \E c \in Cmds, keys \in SUBSET VarKeys, v \in VarValues : CmdEnvs(c, keys, v)
    \/ \E c \in Cmds, k \in VarKeys : CmdEnvRemove(c, k)
    \/ \E c \in Cmds : CmdEnvClear(c)
    \/ \E c \in Cmds : ToCommand(c)
InitVars == InitSh /\ InitGslCold /\ InitExecIdle /\ InitTmpIdle
SpecVars == InitVars /\ [][NextVars]_vars

(***************************************************************************)
(* Claims about exec() and wait_deadline().                                *)
(***************************************************************************)
Returned == pc = "returned"
Spawned == child.state # "none"
\* no read of a drain worker has failed
NoReadError == out_error = None /\ err_error = None
\* the child program writes one stream in full, more than a pipe holds, before the other
WritesOneStreamFirst ==
    /\ plan.finish
    /\ \/ plan.order = "out_first" /\ plan.out_total > PipeCap
       \/ plan.order = "err_first" /\ plan.err_total > PipeCap

\* C1: with stdout and stderr captured and no deadline, for a child that writes more than
\* one pipe buffer to one stream before (or without) writing to the other and then exits,
\* exec eventually returns, unless a read of a drain worker fails.
C1_NoOutputDeadlock ==
    (Spawned /\ deadline = None /\ WritesOneStreamFirst) ~> (Returned \/ ~NoReadError)

\* C1 witness: exec has returned after such a child wrote more than a pipe holds to stderr
\* before it wrote to stdout, and every byte of both streams was read.
C1_Witness ==
    /\ Returned /\ deadline = None /\ WritesOneStreamFirst /\ NoReadError
    /\ plan.order = "err_first" /\ plan.out_total > 0
    /\ Len(err_seen) = plan.err_total /\ Len(out_seen) = plan.out_total

\* the child exited on its own, at this instant
ExitedOnItsOwn == IsSome(hist.exit_time)
\* no call of kill, wait or try_wait has failed, and no read or write of a worker
NoFault == hist.faults = {} /\ NoReadError /\ in_error \in {None, Some("BrokenPipe")}
TimedOut == result.error = Some("TimedOut")

\* C2 as claimed: whenever the child's own exit comes strictly after the deadline, exec
\* returns TimedOut with the child terminated and reaped (stated for runs in which no
\* system call fails).
C2_Original ==
    (Returned /\ Spawned /\ IsSome(deadline) /\ NoFault
       /\ ExitedOnItsOwn /\ Unwrap(hist.exit_time) > Unwrap(deadline))
    => (TimedOut /\ hist.kills = 1 /\ child.state = "reaped")

\* C2 amended: a child that has not exited on its own by the time exec returns was found
\* running by a status check after the deadline had passed: exec returns TimedOut and no
\* status; and whenever exec returns TimedOut it has issued exactly one termination
\* request and one blocking wait, and the child is reaped unless that wait failed.
C2_TimeoutKillsAndReaps ==
    (Returned /\ Spawned /\ IsSome(deadline))
    => /\ (NoFault /\ ~ExitedOnItsOwn) => (TimedOut /\ result.status = None)
       /\ TimedOut => /\ hist.kills = 1 /\ hist.waits = 1
                      /\ "final_wait" \notin hist.faults => child.state = "reaped"

\* C2 witness: exec returned TimedOut for a child that never exited on its own; the child
\* was killed and reaped.
C2_Witness ==
    /\ Returned /\ TimedOut /\ NoFault /\ ~ExitedOnItsOwn
    /\ child.state = "reaped" /\ child.status = KILLED /\ now > Unwrap(deadline)

\* C3 as claimed: whenever the child exits on its own strictly before the deadline, exec
\* returns its exit status and no timeout (stated for runs in which no system call fails).
C3_Original ==
    (Returned /\ IsSome(deadline) /\ NoFault
       /\ ExitedOnItsOwn /\ Unwrap(hist.exit_time) < Unwrap(deadline))
    => (result.status = Some(child.status) /\ ~TimedOut)

\* the child exited while the waiter was about to make a status check or asleep before one
ExitedBeforeAPoll == ExitedOnItsOwn /\ hist.exit_pc \in {"try_wait", "sleep"}

\* C3 amended: a child that exits on its own before a status check of the polling loop is
\* made, whether that check falls before or after the deadline, is returned with its real
\* exit status and without timeout, unless the status check itself fails. (A child that
\* exits between a status check and the deadline test after it may be reported as timed
\* out.)
C3_ExitSeenByPoll ==
    (Returned /\ IsSome(deadline) /\ ExitedBeforeAPoll /\ "try_wait" \notin hist.faults)
    => (result.status = Some(child.status) /\ child.status \in ExitCodes /\ ~TimedOut)

\* C3 witness: the exit status was returned by a poll made after the deadline had passed.
C3_Witness ==
    /\ Returned /\ IsSome(deadline) /\ ExitedBeforeAPoll /\ NoFault
    /\ Unwrap(hist.exit_time) < Unwrap(deadline) /\ now > Unwrap(deadline)
    /\ result.status = Some(1) /\ result.error = None

\* the last bytes of s up to the ceiling: all of s without ceiling
LastBytes(s, limit) ==
    IF limit = None \/ Len(s) <= Unwrap(limit) THEN s
    ELSE [i \in 1..Unwrap(limit) |-> s[Len(s) - Unwrap(limit) + i]]

\* C4: each stream's buffer holds exactly the last C bytes read from the stream, in order
\* (all bytes read when they are at most C, or without ceiling), and exec returns them.
C4_LastBytesKept ==
    /\ out_deque = LastBytes(out_seen, stdout_limit)
    /\ err_deque = LastBytes(err_seen, stderr_limit)
    /\ (Returned /\ Spawned) => /\ result.stdout = LastBytes(out_seen, stdout_limit)
                                /\ result.stderr = LastBytes(err_seen, stderr_limit)

\* C4 witness: exec returned a stdout cut to a ceiling of 2 after more bytes were read in
\* several chunks, and a stderr shorter than its ceiling in full.
C4_Witness ==
    /\ Returned /\ stdout_limit = Some(2) /\ Len(out_seen) = MaxOut /\ Len(result.stdout) = 2
    /\ stderr_limit = Some(2) /\ Len(err_seen) = 1 /\ result.stderr = << ErrByte(1) >>

\* t is s without some of its first elements
IsSuffix(t, s) == Len(t) <= Len(s) /\ t = SubSeq(s, Len(s) - Len(t) + 1, Len(s))
\* the bytes a step adds to what was read
NewOut == SubSeq(out_seen', Len(out_seen) + 1, Len(out_seen'))
NewErr == SubSeq(err_seen', Len(err_seen) + 1, Len(err_seen'))
WithinLimit(deque, limit) == IsSome(limit) => Len(deque) <= Unwrap(limit)

\* C5: after every turn of a drain worker the stream's buffer is no longer than the
\* ceiling (0 included), and a turn removes bytes from the oldest end only: the buffer is
\* a suffix of the old buffer followed by the chunk.
C5_WithinCeiling ==
    /\ [](WithinLimit(out_deque, stdout_limit) /\ WithinLimit(err_deque, stderr_limit))
    /\ [][/\ IsSuffix(out_deque', out_deque \o NewOut)
          /\ IsSuffix(err_deque', err_deque \o NewErr)]_vars

\* C5 witness: with a ceiling of 0 a chunk of two bytes was read and the buffer is empty;
\* the other buffer sits at its ceiling of 1 after two bytes.
C5_Witness ==
    /\ stdout_limit = Some(0) /\ Len(out_seen) >= 2 /\ out_deque = << >>
    /\ stderr_limit = Some(1) /\ Len(err_seen) = 2 /\ Len(err_deque) = 1

(***************************************************************************)
(* Claims about the global shell lock.                                     *)
(***************************************************************************)
Writing(t) == CACHE[t] = CacheWrite
Reading(t) == IsRead(CACHE[t]) /\ Readers(CACHE[t]) # 0
NoInterest(t) == CACHE[t] = CacheRead(0)
Holds(t, g) == \E i \in 1..Len(guards[t]) : guards[t][i] = g
\* so far every thread has dropped its guards newest first
AllReverse == \A t \in Threads : ghist.reverse[t]

\* C6: while every thread drops its guards in reverse order of acquisition, at most one
\* thread is Writing, no other thread is Reading(n > 0) meanwhile, and a cache shows Write
\* or Read(n > 0) only while the thread holds the write lock or a read lock of the RwLock.
C6_OneWriter ==
    AllReverse =>
        \A t \in Threads :
            /\ Writing(t) => /\ LOCK.writer = t
                             /\ \A u \in Threads \ {t} : ~Writing(u) /\ ~Reading(u)
            /\ Reading(t) => LOCK.readers[t] > 0 /\ LOCK.writer = NoThread

\* C6 witness: A is Writing with a nested guard while B waits in write() and C in read().
C6_Witness ==
    /\ AllReverse /\ Writing("A") /\ Len(guards["A"]) = 2
    /\ tpc["B"] = "write" /\ tpc["C"] = "read"

\* thread t receives guard g in this step
Receives(t, g) == guards'[t] = Append(guards[t], g)

\* C7: a thread that holds a write guard holds the write lock of the RwLock; the read()
\* of a thread B without read guard returns only out of rw_lock::read(), with a guard that
\* holds a read lock, when no thread holds a write guard; and every read() that waits
\* returns in the end.
C7_ReadWaitsForWriter ==
    /\ [](\A a \in Threads : Holds(a, GuardWrite) => LOCK.writer = a)
    /\ [][\A b \in Threads :
            (NoInterest(b) /\ (Receives(b, GuardReadSome) \/ Receives(b, GuardReadNone)))
            => /\ tpc[b] = "read" /\ Receives(b, GuardReadSome)
               /\ LOCK.writer = NoThread
               /\ \A a \in Threads : ~Holds(a, GuardWrite)]_vars
    /\ []<>(\A b \in Threads : tpc[b] # "read")

\* C7 witness: B called read() while A held the write lock, and now holds its read guard.
C7_Witness ==
    /\ ghist.behind["B"] = "A" /\ guards["B"] = << GuardReadSome >> /\ tpc["B"] = "idle"
    /\ LOCK.readers["B"] = 1 /\ guards["A"] = << >>

\* no thread waits in the RwLock or holds a guard
Finished == \A t \in Threads : tpc[t] \notin {"read", "write"} /\ guards[t] = << >>

\* C8: a read() of a thread that holds a read guard returns at once with a guard that
\* holds no read lock, without touching the RwLock, also while a writer waits; and all
\* threads finish: no thread stays blocked and every guard is dropped.
C8_NestedReadPassesWriter ==
    /\ [][\A t \in Threads :
            (Reading(t) /\ calls'[t] > calls[t] /\ tpc'[t] # "unwinding")
            => /\ tpc'[t] = "idle"
               /\ guards'[t] = Append(guards[t], GuardReadNone)
               /\ LOCK' = LOCK]_vars
    /\ []<>Finished

\* C8 witness: with an RwLock that makes readers wait behind a waiting writer, A got a
\* nested read guard while B waits in write().
C8_Witness ==
    /\ LOCK.policy = "writers_first" /\ tpc["B"] = "write"
    /\ guards["A"] = << GuardReadSome, GuardReadNone >> /\ tpc["A"] = "idle"
    /\ ghist.behind["A"] = NoThread

\* the guard that left `old` to give `new`
Dropped(old, new) == old[CHOOSE i \in 1..Len(old) : new = Remove(old, i)]

\* C9: a thread takes a lock of the RwLock only in a read() that moves its cache from
\* Read(0) to Read(1) and in a write() at Read(0), and gives it back only in the drop of
\* the guard such a call returned: nested reads and the drops of their guards leave the
\* RwLock alone; after drops in reverse order a thread without guards is in NoInterest
\* and holds no lock.
C9_LockTouchedOnlyByOuter ==
    /\ [][\A t \in Threads :
            /\ LOCK'.readers[t] > LOCK.readers[t]
                 => NoInterest(t) /\ CACHE'[t] = CacheRead(1) /\ tpc[t] = "read"
            /\ (LOCK'.writer = t /\ LOCK.writer # t)
                 => NoInterest(t) /\ CACHE'[t] = CacheWrite /\ tpc[t] = "write"
            /\ (LOCK'.readers[t] < LOCK.readers[t] \/ (LOCK.writer = t /\ LOCK'.writer # t))
                 => /\ Len(guards'[t]) < Len(guards[t])
                    /\ Dropped(guards[t], guards'[t]) \in {GuardReadSome, GuardWrite}
            /\ (Reading(t) /\ calls'[t] > calls[t]) => LOCK' = LOCK
            /\ (Len(guards'[t]) < Len(guards[t])
                  /\ Dropped(guards[t], guards'[t]) = GuardReadNone) => LOCK' = LOCK]_vars
    /\ [](\A t \in Threads :
            (ghist.reverse[t] /\ guards[t] = << >> /\ tpc[t] = "idle")
            => NoInterest(t) /\ LOCK.readers[t] = 0 /\ LOCK.writer # t)

\* C9 witness: after read(); read(); drop; drop, newest first, A is back in NoInterest and
\* the RwLock is free.
C9_Witness ==
    /\ calls["A"] = 2 /\ calls["B"] = 0 /\ calls["C"] = 0 /\ ghist.reverse["A"]
    /\ guards["A"] = << >> /\ NoInterest("A") /\ tpc["A"] = "idle"
    /\ LOCK.readers["A"] = 0 /\ ghist.behind["A"] = NoThread

\* C10: a thread whose cache is Write gets from read() and write() a guard without lock,
\* at once, with the RwLock and the cache unchanged; the drop of such a guard changes
\* neither; the cache leaves Write only in the drop of the write guard.
C10_ReentrantInWrite ==
    [][\A t \in Threads :
         /\ (Writing(t) /\ calls'[t] > calls[t])
              => /\ guards'[t] = Append(guards[t], GuardNone)
                 /\ tpc'[t] = "idle" /\ LOCK' = LOCK /\ CACHE' = CACHE
         /\ (Len(guards'[t]) < Len(guards[t]) /\ Dropped(guards[t], guards'[t]) = GuardNone)
              => CACHE' = CACHE /\ LOCK' = LOCK /\ tpc' = tpc
         /\ (Writing(t) /\ ~Writing(t)')
              => /\ Len(guards'[t]) < Len(guards[t])
                 /\ Dropped(guards[t], guards'[t]) = GuardWrite]_vars

\* C10 witness: A holds the write guard and a guard from a nested call, and has dropped
\* nothing out of order; the RwLock is held once, by A.
C10_Witness ==
    /\ guards["A"] = << GuardWrite, GuardNone >> /\ Writing("A") /\ LOCK.writer = "A"
    /\ ghist.reverse["A"] /\ tpc["B"] = "read"

\* C11: a write() of a thread whose cache is Read(n), n > 0, panics with the message of
\* the assertion, without a step into the RwLock and with the cache and the RwLock
\* unchanged; no thread ever waits in rw_lock::write() with a read interest.
C11_WriteInReadPanics ==
    /\ [][\A t \in Threads :
            (Reading(t) /\ calls'[t] > calls[t] /\ guards'[t] = guards[t])
            => /\ tpc'[t] = "unwinding" /\ ghist'.panic[t] = WritePanic
               /\ LOCK' = LOCK /\ CACHE' = CACHE]_vars
    /\ [](\A t \in Threads : tpc[t] = "write" => NoInterest(t))

\* C11 witness: A called write() inside a read scope; it unwinds with the message, its
\* cache still Read(1) and its read lock still held.
C11_Witness ==
    /\ tpc["A"] = "unwinding" /\ ghist.panic["A"] = WritePanic
    /\ guards["A"] = << GuardReadSome >> /\ CACHE["A"] = CacheRead(1)
    /\ LOCK.readers["A"] = 1 /\ LOCK.writer = NoThread

\* the thread runs on: it neither unwinds nor is the process aborted
RunsOn(t) == tpc[t] \in {"idle", "read", "write"}

\* C12, as stated: a thread that has dropped a guard while a guard it took later was alive
\* has panicked at that drop, and no thread that runs on holds a guard for access the
\* RwLock does not grant: a guard taken inside a write scope implies the write lock, a
\* cache Read(n > 0) implies a read lock.
C12_Original ==
    \A t \in Threads :
        /\ ~ghist.reverse[t] => ghist.panic[t] # ""
        /\ (RunsOn(t) /\ Holds(t, GuardNone)) => LOCK.writer = t
        /\ (RunsOn(t) /\ Reading(t)) => LOCK.readers[t] > 0

\* the thread has kept the rules: reverse order of drops, no write() inside a read scope
KeptRules(t) == ghist.reverse[t] /\ ghist.panic[t] = ""
\* the thread drops the guard it took last
DropsNewest(t) ==
    Len(guards[t]) > 0 /\ guards'[t] = SubSeq(guards[t], 1, Len(guards[t]) - 1)

\* C13: for a thread that drops in reverse order and never calls write() inside a read
\* scope, each drop gives back the cache and the RwLock locks the thread had just before
\* the call that returned the guard; with all guards dropped the thread is in NoInterest
\* with no lock, and once no thread holds a guard the RwLock grants a write lock.
C13_DropRestores ==
    /\ [][\A t \in Threads :
            (KeptRules(t) /\ DropsNewest(t))
            => Snapshot(t)' = ghist.before[t][Len(guards[t])]]_vars
    /\ [](\A t \in Threads :
            (KeptRules(t) /\ guards[t] = << >> /\ tpc[t] = "idle")
            => Snapshot(t) = [cache |-> CacheRead(0), readers |-> 0, writer |-> FALSE])
    /\ [](((\A t \in Threads : KeptRules(t) /\ guards[t] = << >>)) => CanLockWrite)

\* C13 witness: A did read(); read() and both drops, reverse order; B, which called
\* write() meanwhile, has got the write lock.
C13_Witness ==
    /\ calls["A"] = 2 /\ guards["A"] = << >> /\ KeptRules("A") /\ NoInterest("A")
    /\ ghist.behind["A"] = NoThread /\ LOCK.readers["A"] = 0
    /\ guards["B"] = << GuardWrite >> /\ calls["B"] = 1 /\ LOCK.writer = "B"

(***************************************************************************)
(* Claims about the outcome exec() assembles.                              *)
(***************************************************************************)
\* wait_deadline returned Err(TimedOut)
WaiterTimedOut == status = Err("TimedOut")
\* a drain worker's read failed
ReadFailed == IsSome(out_error) \/ IsSome(err_error)
\* the stdin writer failed with an error other than BrokenPipe
WriteFailed == IsSome(in_error) /\ Kind(Unwrap(in_error)) # "BrokenPipe"

\* C14: when wait_deadline has reported a timeout, the error of the outcome is TimedOut,
\* whatever the workers' error slots hold; the outcome has one error at most.
C14_TimeoutWins ==
    Returned =>
        /\ WaiterTimedOut => result.error = Some("TimedOut")
        /\ result.error = None \/ Len(result.error) = 1

\* C14 witness: exec returned TimedOut although a read and the stdin write failed too.
C14_Witness ==
    /\ Returned /\ WaiterTimedOut /\ result.error = Some("TimedOut")
    /\ IsSome(out_error) /\ WriteFailed

\* C15, as stated: when the wait succeeded, a read of stdout or stderr failed and the stdin
\* writer failed with an error other than BrokenPipe, the error of the outcome is the
\* error of the read.
C15_Original ==
    (Returned /\ IsOk(status) /\ ReadFailed /\ WriteFailed)
    => result.error \in ({out_error, err_error} \ {None})

\* write_all on stdin ended with BrokenPipe
WriteBrokenPipe == in_error = Some("BrokenPipe")

\* C16: a BrokenPipe of the stdin writer is never the error of the outcome: alone it
\* leaves the error empty and the status the child's exit status; next to a failed read
\* or a failed wait the error of the outcome is that other error.
C16_BrokenPipeSwallowed ==
    (Returned /\ Spawned) =>
        /\ result.error # Some("BrokenPipe")
        /\ (WriteBrokenPipe /\ ~ReadFailed /\ IsOk(status))
             => result.error = None /\ result.status = Some(child.status)
        /\ (WriteBrokenPipe /\ (ReadFailed \/ IsErr(status)))
             => /\ IsSome(result.error)
                /\ result.error \in {out_error, err_error, Some(status[2])}

\* C16 witness: the child exited with code 1 without reading its stdin; the writer got
\* BrokenPipe and the outcome has the status and no error.
C16_Witness ==
    /\ Returned /\ WriteBrokenPipe /\ in_written < StdinLen
    /\ result.error = None /\ result.status = Some(1)

\* C17: when command.spawn() fails, exec returns in that step: no worker was started, no
\* wait, try_wait or kill was called, the error of the outcome is the error spawn()
\* reported, the status is absent and stdout and stderr are empty.
C17_SpawnFailureShortCircuits ==
    /\ [](IsSome(hist.spawn_error) =>
            /\ Returned /\ ~Spawned
            /\ \A w \in {"in", "out", "err"} : worker[w] = "none"
            /\ hist.waits = 0 /\ hist.kills = 0 /\ status = << >>
            /\ result = [stdout |-> << >>, stderr |-> << >>, status |-> None,
                         error |-> hist.spawn_error])
    /\ [](~Spawned => pc \in {"spawn", "returned"})

\* C17 witness: spawn() failed with PermissionDenied on a call with stdin and a deadline.
C17_Witness ==
    /\ Returned /\ hist.spawn_error = Some("PermissionDenied")
    /\ result.error = Some("PermissionDenied") /\ result.status = None
    /\ IsSome(stdin_contents) /\ IsSome(deadline)

\* the final wait after the termination request was made and did not fail
FinalWaitSucceeded == hist.kills > 0 /\ "final_wait" \notin hist.faults /\ child.state = "reaped"

\* C18, as stated: when the error of the outcome is TimedOut and the wait after the
\* termination request succeeded, the status of the outcome is present and is the exit
\* status that wait returned.
C18_Original ==
    (Returned /\ TimedOut /\ FinalWaitSucceeded) => result.status = Some(child.status)

\* the deadline was in the past when exec was called
PastAtCall == IsSome(deadline) /\ Unwrap(deadline) < 0
\* what exec returns as stdout and stderr is what the drain workers kept of what they read
OutputReturned ==
    /\ result.stdout = LastBytes(out_seen, stdout_limit)
    /\ result.stderr = LastBytes(err_seen, stderr_limit)

\* C19, as stated: called with a deadline in the past, exec spawns the child and, whatever
\* the child does, returns TimedOut with the child killed and reaped at the first poll,
\* and the output read so far (stated for runs without failed system calls).
C19_Original ==
    (Returned /\ Spawned /\ PastAtCall /\ NoFault)
    => /\ TimedOut /\ hist.kills = 1 /\ child.state = "reaped"
       /\ sleep_ms = 1 /\ OutputReturned

\* C19 amended: called with a deadline in the past, exec settles at the first poll,
\* without a sleep: a child the first status check finds running is killed and reaped and
\* TimedOut is returned without status; a child that has exited on its own before that
\* check is returned with its exit status and no error; either way with the output read.
C19_PastDeadlineFirstPoll ==
    PastAtCall =>
        /\ pc # "sleep" /\ sleep_ms = 1
        /\ (Returned /\ Spawned /\ NoFault) =>
              /\ OutputReturned
              /\ IF ExitedOnItsOwn /\ hist.exit_pc = "try_wait"
                 THEN /\ result.error = None /\ result.status = Some(child.status)
                      /\ hist.kills = 0 /\ child.status \in ExitCodes
                 ELSE /\ TimedOut /\ result.status = None
                      /\ hist.kills = 1 /\ hist.waits = 1 /\ child.state = "reaped"

\* C19 witness: the deadline was in the past; the child was killed at the first poll, at
\* instant 0, and the byte it had written is returned with TimedOut.
C19_Witness ==
    /\ Returned /\ PastAtCall /\ NoFault /\ TimedOut /\ now = 0
    /\ child.status = KILLED /\ result.stdout = << OutByte(1) >>

\* the buffers and error slots the workers write
WorkerSlots == << out_deque, err_deque, in_error, out_error, err_error, in_written, worker >>

\* C20: the outcome is built in one step, taken only when wait_deadline has returned and
\* every started worker has ended; it holds the buffers as the workers left them; after
\* exec has returned no buffer and no error slot changes.
C20_JoinBarrier ==
    /\ []((Returned /\ Spawned) =>
            /\ AllJoined /\ status # << >>
            /\ result.stdout = out_deque /\ result.stderr = err_deque)
    /\ [][result' # result =>
            \/ pc = "spawn"
            \/ pc = "join" /\ status # << >> /\ \A w \in {"in", "out", "err"} : worker[w] # "running"]_vars
    /\ [][Returned => UNCHANGED WorkerSlots]_vars

\* C20 witness: exec returned after the waiter and all three workers had ended, the stdin
\* writer last with bytes written, the drains with bytes read.
C20_Witness ==
    /\ Returned /\ \A w \in {"in", "out", "err"} : worker[w] = "done"
    /\ in_written > 0 /\ out_deque # << >> /\ err_deque # << >> /\ IsOk(status)

\* the status check or the termination request failed: the child was not killed
WaiterFault == hist.faults \cap {"try_wait", "kill"} # {}

\* C21: with a deadline, exec returns in the end whatever the child does: a child that
\* never exits, never reads its stdin and never closes its streams is killed once the
\* deadline has passed, which unblocks the stdin writer and the drain workers (stated
\* for runs in which the status check and the termination request do not fail).
C21_DeadlineBoundsBlocking == (Spawned /\ IsSome(deadline)) ~> (Returned \/ WaiterFault)

\* C21 witness: the child never exited on its own and read none of its stdin; the writer,
\* blocked on the full pipe, ended with BrokenPipe when the child was killed.
C21_Witness ==
    /\ Returned /\ TimedOut /\ ~ExitedOnItsOwn /\ child.in_read = 0
    /\ in_written = PipeCap /\ StdinLen > PipeCap /\ WriteBrokenPipe
    /\ child.out_left = plan.out_total

\* the bytes of s that a ceiling lets through
Kept(s, limit) == IF limit = None \/ Len(s) <= Unwrap(limit) THEN Len(s) ELSE Unwrap(limit)

\* C22: when exec returns an error after a successful spawn, stdout and stderr of the
\* outcome are the bytes the drain workers read, cut only by the ceilings: the error
\* removes none of them.
C22_OutputKeptOnError ==
    (Returned /\ Spawned /\ IsSome(result.error)) =>
        /\ OutputReturned
        /\ Len(result.stdout) = Kept(out_seen, stdout_limit)
        /\ Len(result.stderr) = Kept(err_seen, stderr_limit)

\* C22 witness: a read of stdout failed after more bytes than the ceiling of 2 were read;
\* the outcome has the error and the last 2 bytes; stderr is returned in full.
C22_Witness ==
    /\ Returned /\ result.error = Some("ReadStdout") /\ stdout_limit = Some(2)
    /\ Len(out_seen) > 2 /\ result.stdout = << out_seen[Len(out_seen) - 1], out_seen[Len(out_seen)] >>
    /\ result.stderr = err_seen /\ Len(err_seen) > 0

\* C23: an error of wait() without deadline or of try_wait() with a deadline is the error
\* of the outcome, as the system call reported it and whatever the workers' error slots
\* hold; the status is absent and no termination request was made.
C23_WaitErrorPropagated ==
    (Returned /\ IsSome(hist.wait_error)) =>
        /\ result.error = hist.wait_error
        /\ result.status = None
        /\ hist.kills = 0 /\ child.status # KILLED

\* C23 witness: try_wait() failed with NoChild while the child ran and after a read of
\* stdout had failed; the outcome has NoChild, the child was not killed.
C23_Witness ==
    /\ Returned /\ IsSome(deadline) /\ hist.wait_error = Some("NoChild")
    /\ result.error = Some("NoChild") /\ IsSome(out_error) /\ Running /\ hist.kills = 0


(***************************************************************************)
(* Claims about the run methods of Cmd.                                    *)
(***************************************************************************)
\* read() runs a child that copies its stdin to its stdout
ReadsCat == cmd.method = "read" /\ CopiesStdin
\* the stdin given, as a sequence of bytes
Given == IF IsSome(stdin_contents) THEN Unwrap(stdin_contents) ELSE << >>
\* the text is exactly one line: it ends with its only line feed
OneLine(text) == EndsWith(text, NL) /\ ~Contains(Pop(text), NL)

C25_StdinClosedAfterWrite ==
    /\ [](in_open => worker["in"] = "running")
    /\ [](worker["in"] = "done" => (in_written = StdinLen \/ IsSome(in_error)))
    /\ []((Spawned /\ stdin_contents = None) =>
            (worker["in"] = "none" /\ AtEndOfStream /\ in_written = 0))
    /\ []((Spawned /\ IsSome(stdin_contents) /\ Captures) => worker["in"] # "none")
    /\ (Spawned /\ CopiesStdin) ~> (AtEndOfStream \/ IsSome(out_error))
\* the stdin writer has failed after some bytes, and the copying child has read them,
\* met the end of its stdin and exited
C25_Witness ==
    /\ CopiesStdin /\ in_error = Some("WriteStdin")
    /\ 0 < in_written /\ in_written < StdinLen
    /\ child.in_read = in_written /\ AtEndOfStream
    /\ child.state = "exited"


(***************************************************************************)
(* Claims about pushd and pushenv.                                         *)
(***************************************************************************)
\* every thread has dropped its values newest first so far
AllInOrder == \A t \in Threads : ehist.reverse[t]
\* the thread holds a Pushd or a Pushenv
Scoped(t) == scopes[t] # << >>
\* the thread is between the return of gsl::write() in new() and the drop of the fields
\* of its last value
Inside(t) ==
    \/ Scoped(t)
    \/ epc[t].op \in {"pushd", "pushenv"} /\ tpc[t] = "idle"
    \/ epc[t].op = "drop"
\* the thread waits in gsl::write() for its pushd or pushenv
Entering(t) == epc[t].op \in {"pushd", "pushenv"} /\ tpc[t] = "write"

\* C26: as long as every thread drops its values in reverse order, the scopes of
\* different threads never overlap: a thread is past gsl::write() of pushd or pushenv, or
\* holds a value, only while it holds the write lock and no other thread is; and no
\* assertion of a drop fails.
C26_ScopesNeverOverlap ==
    AllInOrder =>
        /\ \A t \in Threads : Inside(t) => LOCK.writer = t
        /\ \A t, u \in Threads : (t # u) => ~(Inside(t) /\ Inside(u))
        /\ \A t \in Threads : ehist.panic[t] = "" /\ ghist.panic[t] = ""
        /\ \A t \in Threads : tpc[t] \in {"idle", "write"}
\* one thread holds a Pushd and a Pushenv while the other waits in its pushd
C26_Witness ==
    /\ AllInOrder
    /\ Len(scopes["A"]) = 2
    /\ scopes["A"][1].kind = "Pushd" /\ scopes["A"][2].kind = "Pushenv"
    /\ Entering(Contender) /\ epc[Contender].op = "pushd"
    /\ current_dir = scopes["A"][1].dir /\ current_dir # InitialDir

\* thread t alone has called pushd or pushenv
OnlyThread(t) == \A u \in Threads \ {t} : calls[u] = 0
\* the current directory once the first i values of the stack are in force
RECURSIVE DirAfter(_, _)
DirAfter(stack, i) ==
    IF i = 0 THEN InitialDir
    ELSE IF stack[i].kind = "Pushd" THEN stack[i].dir
    ELSE DirAfter(stack, i - 1)

\* C27: on a thread that alone calls pushd (and pushenv) and drops the values in reverse
\* order, each Pushd records the directory of right before its call, the current
\* directory is that of the innermost live Pushd, or the initial directory when there is
\* none; once drop() of a Pushd has run, and before its guard is dropped, the directory is
\* again what it was right before the call; and the step that releases the lock leaves
\* the directory alone.
C27_PushdRestoresStepByStep ==
    /\ [](\A t \in Threads : (OnlyThread(t) /\ ehist.reverse[t]) =>
            LET n == Len(scopes[t]) IN
            /\ \A i \in 1..n :
                  /\ ehist.at_call[t][i].dir = DirAfter(scopes[t], i - 1)
                  /\ scopes[t][i].kind = "Pushd" =>
                        scopes[t][i].prev_dir = ehist.at_call[t][i].dir
            /\ epc[t].op # "drop" => current_dir = DirAfter(scopes[t], n)
            /\ epc[t].op = "drop" =>
                  /\ current_dir = DirAfter(scopes[t], epc[t].i - 1)
                  /\ current_dir = ehist.at_call[t][epc[t].i].dir
                  /\ LOCK.writer = t /\ Len(guards[t]) = n)
    /\ [][LOCK'.writer # LOCK.writer => current_dir' = current_dir]_vars
\* the inner of two nested Pushd has been dropped, its guard not yet: the directory is that
\* of the outer Pushd, which is not the initial one
C27_Witness ==
    /\ OnlyThread("A") /\ ehist.reverse["A"]
    /\ epc["A"].op = "drop" /\ epc["A"].i = 2
    /\ scopes["A"][1].kind = "Pushd" /\ scopes["A"][2].kind = "Pushd"
    /\ scopes["A"][2].dir # scopes["A"][1].dir
    /\ current_dir = scopes["A"][1].dir /\ current_dir # InitialDir
    /\ LOCK.writer = "A"

\* the value of variable k once the first i values of the stack are in force
RECURSIVE ValueAfter(_, _, _)
ValueAfter(stack, k, i) ==
    IF i = 0 THEN ehist.at_start[k]
    ELSE IF stack[i].kind = "Pushenv" /\ stack[i].key = k THEN Some(stack[i].value)
    ELSE ValueAfter(stack, k, i - 1)

\* C28: once drop() of a Pushenv has run the variable has the value the Pushenv found
\* when it was made, and is unset when it found none; on a thread that alone calls
\* pushenv (and pushd) and drops the values in reverse order that is the value of right
\* before the call: the variable has the value of the innermost live Pushenv of its key,
\* or its initial state when there is none.
C28_PushenvRestores ==
    /\ AllInOrder =>
          \A t \in Threads :
             (epc[t].op = "drop" /\ scopes[t][epc[t].i].kind = "Pushenv") =>
                LET s == scopes[t][epc[t].i] IN
                /\ environ[s.key] = s.prev_value
                /\ s.prev_value = None => environ[s.key] = None
    /\ \A t \in Threads : (OnlyThread(t) /\ ehist.reverse[t]) =>
          LET n == Len(scopes[t]) IN
          /\ \A i \in 1..n : scopes[t][i].kind = "Pushenv" =>
                scopes[t][i].prev_value = ehist.at_call[t][i].env[scopes[t][i].key]
          /\ \A k \in Keys :
                /\ \A i \in 1..n : ehist.at_call[t][i].env[k] = ValueAfter(scopes[t], k, i - 1)
                /\ epc[t].op # "drop" => environ[k] = ValueAfter(scopes[t], k, n)
                /\ epc[t].op = "drop" => environ[k] = ValueAfter(scopes[t], k, epc[t].i - 1)
\* the outer of two nested Pushenv of a variable that was unset is dropped after the inner
\* one: the variable is removed
C28_Witness ==
    /\ OnlyThread("A") /\ ehist.reverse["A"]
    /\ calls["A"] = 2 /\ Len(scopes["A"]) = 1
    /\ epc["A"].op = "drop"
    /\ scopes["A"][1].kind = "Pushenv" /\ scopes["A"][1].prev_value = None
    /\ \A k \in Keys : ehist.at_start[k] = None /\ environ[k] = None


\* a method of Cmd was called with ignore_status set, and has returned
ReturnedIgnoring(methods) == Returned /\ cmd.method \in methods /\ cmd.ignore_status

\* C29 as claimed: with ignore_status set no run method, run_echo and run_interactive
\* included, returns an error because the child exited with a non-zero status or killed
\* itself with a signal.
C29_Original == ReturnedIgnoring(Methods) => MethodReturn # Err("Status")

\* the waiter, a drain worker or the stdin writer has failed, a broken pipe apart
IoFailed ==
    \/ IsErr(status)
    \/ IsSome(out_error) \/ IsSome(err_error)
    \/ IsSome(in_error) /\ in_error # Some("BrokenPipe")

\* C30: with ignore_status set, run, read, read_stderr and output still return an error
\* when the spawn failed (an Io error), when the wait timed out (a Timeout error), and
\* when the wait, a drain or the write of stdin failed (an Io error, or the Timeout),
\* whatever the exit status of the child; and they return no Status error.
C30_IgnoreStatusKeepsOtherErrors ==
    ReturnedIgnoring(CapturingMethods) =>
        /\ IsSome(hist.spawn_error) => MethodReturn = Err("Io")
        /\ status = Err("TimedOut") => MethodReturn = Err("Timeout")
        /\ IoFailed => MethodReturn \in {Err("Io"), Err("Timeout")}
        /\ MethodReturn # Err("Status")
\* read() with ignore_status returns the Io error of a failed drain of stdout for a child
\* that exited with status 1
C30_Witness ==
    /\ ReturnedIgnoring({"read"})
    /\ result.status = Some(1)
    /\ out_error = Some("ReadStdout") /\ err_error = None
    /\ MethodReturn = Err("Io")


(***************************************************************************)
(* Further claims about the global shell lock.                             *)
(***************************************************************************)
\* C34: whatever a thread calls and in whatever order it drops its guards, while it holds
\* a guard of read kind its cache is Read(n) with n >= 1, and while it holds the write
\* guard its cache is Write; so no drop ever panics with 'had both a reader and a writer'
\* or with the failed assertion that the cache is Write.
C34_CacheMatchesGuards ==
    \A t \in Threads :
        /\ (Holds(t, GuardReadSome) \/ Holds(t, GuardReadNone))
              => (IsRead(CACHE[t]) /\ Readers(CACHE[t]) >= 1)
        /\ Holds(t, GuardWrite) => CACHE[t] = CacheWrite
        /\ ghist.panic[t] \notin {"had both a reader and a writer",
                                   "assertion failed: cache is Write"}
\* a thread dropped its write guard before the guard it took inside the write scope, and
\* nothing failed: its cache is Read(0) and the guard left is Guard(None)
C34_Witness ==
    /\ guards["A"] = << GuardNone >> /\ ~ghist.reverse["A"]
    /\ CACHE["A"] = CacheRead(0) /\ ghist.panic["A"] = "" /\ tpc["A"] = "idle"


(***************************************************************************)
(* Further claims about wait_deadline() and exec().                        *)
(***************************************************************************)
\* this step is a call of child.kill()
KillIssued == hist'.kills > hist.kills

\* C35: a termination request is issued only with a deadline, only by the step that
\* follows a deadline test that found the deadline passed, which itself follows only a
\* status check that found the child not exited, and never on a reaped child; without a
\* deadline the child is waited for once, blocking, and never polled or killed.
C35_KillOnlyAfterPollAndDeadline ==
    /\ [][KillIssued =>
            /\ IsSome(deadline) /\ pc = "kill" /\ now > Unwrap(deadline)
            /\ child.state # "reaped" /\ hist.waits = 0 /\ hist.kills = 0]_vars
    /\ [][pc' = "kill" /\ pc # "kill" =>
            pc = "check_deadline" /\ now > Unwrap(deadline)]_vars
    /\ [][pc' = "check_deadline" /\ pc # "check_deadline" =>
            pc = "try_wait" /\ child.state = "running" /\ child' = child]_vars
    /\ [](deadline = None =>
            /\ hist.kills = 0 /\ hist.waits <= 1
            /\ pc \in {"spawn", "wait", "join", "returned"}
            /\ (Returned /\ Spawned) => hist.waits = 1)
\* the child was found running by a status check after the deadline, and has been killed
C35_Witness ==
    /\ pc = "final_wait" /\ hist.kills = 1 /\ hist.faults = {}
    /\ child.state = "exited" /\ child.status = KILLED
    /\ now > Unwrap(deadline)

\* C36: once the deadline was found passed, exactly one termination request is issued,
\* then exactly one blocking wait, and wait_deadline returns TimedOut, also when the
\* request or the wait failed; exec then reports TimedOut and no status.
C36_OneKillOneWaitThenTimedOut ==
    /\ [][pc = "kill" /\ pc' # pc => (hist'.kills = hist.kills + 1 /\ hist'.waits = hist.waits
                           /\ pc' = "final_wait" /\ status' = status)]_vars
    /\ [][pc = "final_wait" /\ pc' # pc => (hist'.waits = hist.waits + 1 /\ hist'.kills = hist.kills
                                 /\ pc' = "join" /\ status' = Err("TimedOut"))]_vars
    /\ [](pc = "kill" => hist.kills = 0 /\ hist.waits = 0)
    /\ [](pc = "final_wait" => hist.kills = 1 /\ hist.waits = 0)
    /\ []((pc \in {"join", "returned"} /\ hist.kills > 0) =>
            (hist.kills = 1 /\ hist.waits = 1 /\ status = Err("TimedOut")))
    /\ []((Returned /\ hist.kills > 0) =>
            (result.error = Some("TimedOut") /\ result.status = None))
\* exec has returned TimedOut after a termination request that failed
C36_Witness ==
    /\ Returned /\ "kill" \in hist.faults /\ "final_wait" \notin hist.faults
    /\ hist.kills = 1 /\ hist.waits = 1
    /\ result.error = Some("TimedOut") /\ result.status = None


\* the length of the k-th sleep in milliseconds
NthSleep(k) == IF 2 ^ (k - 1) < 64 THEN 2 ^ (k - 1) ELSE 64
\* the waiter is in the loop of wait_deadline
Polling == pc \in {"try_wait", "check_deadline", "sleep"}

\* C37: sleep_ms is 1 before the first poll and min(2^(k-1), 64) after the k-th poll until
\* the sleep that follows it ends, so it stays within 1..64; the k-th sleep is set to end
\* min(2^(k-1), 64) ms after the clock was read, and ends no earlier.
C37_SleepDoublesToCap ==
    /\ [](sleep_ms \in 1..64)
    /\ [](pc = "try_wait" => sleep_ms = NthSleep(hist.polls + 1))
    /\ [](pc \in {"check_deadline", "sleep"} => sleep_ms = NthSleep(hist.polls))
    /\ [][pc = "check_deadline" /\ pc' = "sleep" =>
            wake_at' = now + NthSleep(hist.polls)]_vars
    /\ [][pc = "sleep" /\ pc' # pc => now >= wake_at /\ now > 0]_vars
\* the ninth sleep: the two before it lasted 64 ms as well
C37_Witness ==
    /\ pc = "sleep" /\ hist.polls = 9 /\ sleep_ms = 64
    /\ wake_at = now + 64 /\ now = 191


\* C38: an outcome of exec without error has a status, and one without status has an error;
\* so when check_exec_result returns Ok the status is there, and output() can unwrap it.
C38_StatusOrError ==
    Returned =>
        /\ result.error = None => IsSome(result.status)
        /\ result.status = None => IsSome(result.error)
        /\ IsOk(check_exec_result) => IsSome(result.status)
        /\ (cmd.method = "output" /\ IsOk(check_exec_result)) =>
                (IsOk(MethodReturn) /\ MethodReturn[2].status = Unwrap(result.status))
\* output() returns the status of a child that failed, the status being ignored
C38_Witness ==
    /\ Returned /\ cmd.method = "output" /\ cmd.ignore_status
    /\ result.error = None /\ result.status = Some(1)
    /\ IsOk(MethodReturn) /\ MethodReturn[2].status = 1


\* the instant fixed by timeout(d): the instant of the call plus d
FixedDeadline == Unwrap(hist.set_at) + Unwrap(hist.timeout)
\* a timeout was set and the run began after the instant it fixed
StartedLate == IsSome(hist.set_at) /\ pc # "cmd" /\ hist.started > FixedDeadline

\* C39: the deadline is the instant of the call of timeout(d) plus d, in every run that
\* follows, however late; a run begun after that instant does not sleep, and (no system
\* call failing) it ends at its first poll: a child found running there is killed and the
\* run returns Timeout, a child that had exited before is returned with its status.
C39_DeadlineFixedAtCall ==
    /\ deadline = (IF IsSome(hist.set_at) THEN Some(FixedDeadline) ELSE None)
    /\ StartedLate => (pc # "sleep" /\ hist.polls <= 1 /\ sleep_ms = 1)
    /\ (StartedLate /\ Returned /\ Spawned /\ NoFault) =>
          IF ExitedOnItsOwn /\ hist.exit_pc = "try_wait"
          THEN hist.kills = 0 /\ result.error = None
          ELSE /\ hist.kills = 1 /\ hist.polls = 1
               /\ TimedOut /\ MethodReturn = Err("Timeout")
\* the second run of a Cmd whose timeout of 0 ms was set at instant 0: begun at instant 2,
\* it was killed at its first poll and returned Timeout
C39_Witness ==
    /\ Returned /\ hist.runs = 1 /\ StartedLate /\ NoFault
    /\ hist.set_at = Some(0) /\ hist.timeout = Some(0) /\ hist.started = 2
    /\ hist.kills = 1 /\ hist.polls = 1 /\ MethodReturn = Err("Timeout")


(***************************************************************************)
(* Claims about create_temp_dir.                                           *)
(***************************************************************************)
\* the call of the thread has returned an error
TmpFailed(t) == mk[t].at = "returned" /\ IsErr(Unwrap(mk[t].ret))
\* the step returns a path to the thread
TmpReturns(t) == mk[t].at = "create" /\ mk'[t].at = "returned" /\ IsOk(Unwrap(mk'[t].ret))

\* C40 as claimed, the part on errors: a call of create_temp_dir returns an error only
\* after 1025 failed attempts in a row.
C40_Original ==
    \A t \in TmpThreads : TmpFailed(t) => mhist.failed[t] = MaxTries + 1

\* C40 amended: no two calls return the same path and no two attempts use the same value
\* of the counter; a call returns a path only in the step in which it made the directory,
\* which was not there; no call makes more than 1025 attempts; a call returns an error
\* either before its first attempt, when the base directory could not be made, or after
\* 1025 failed attempts in a row.
C40_DistinctTempDirs ==
    /\ [](mhist.returned_twice = {} /\ mhist.used_twice = {})
    /\ [][\A t \in TmpThreads : TmpReturns(t) =>
            /\ mk[t].cnt \notin dirs /\ mk[t].cnt \in dirs'
            /\ mk'[t].ret = Some(Ok(mk[t].cnt))]_vars
    /\ [](\A t \in TmpThreads :
            /\ mk[t].try_count <= MaxTries /\ mhist.failed[t] <= MaxTries + 1
            /\ TmpFailed(t) => mhist.failed[t] \in {0, MaxTries + 1}
            /\ (mk[t].at = "returned" /\ IsOk(Unwrap(mk[t].ret))) => mhist.failed[t] <= MaxTries)
\* both threads hold a temporary directory, one made after an attempt had failed on a
\* directory of another process
C40_Witness ==
    /\ \A t \in TmpThreads : mk[t].at = "returned" /\ IsOk(Unwrap(mk[t].ret))
    /\ mk["A"].ret # mk["B"].ret
    /\ mhist.failed["A"] = 1 /\ mhist.foreign > 0
    /\ {Unwrap(mk[t].ret)[2] : t \in TmpThreads} \subseteq dirs

(***************************************************************************)
(* Claims about the environment of Shell and Cmd.                          *)
(***************************************************************************)
\* C31: a step that changes the environment through one Shell or Cmd, or makes it, leaves
\* the environment seen through every other Shell and Cmd as it was, and the values they
\* share it with, and no step changes the environment of the process.
C31_EnvChangesStayLocal ==
    /\ [][\A h \in Handles : (IF h \in Shells THEN ThroughShell(h) ELSE ThroughCmd(h)) =>
            \A g \in Handles \ {h} : Made(g) => (Made(g)' /\ shenv'[g] = shenv[g])]_vars
    /\ [][environ' = environ]_vars
\* the Shell, its clone, a Cmd made with the Shell and the process each see another
\* environment
C31_Witness ==
    /\ \A h \in {"sh", "cloned_sh", "cmd"} : Made(h)
    /\ Seen("sh") = [EmptyMap EXCEPT !["v1"] = Some("1")]
    /\ Seen("cloned_sh") = EmptyMap
    /\ Seen("cmd") = [EmptyMap EXCEPT !["v2"] = Some("1")]
    /\ environ["v1"] = Some("0")

\* the child of the command has been spawned
SpawnedEnv == Made(Tracked) /\ shist.spawned

\* C32 as claimed: a variable removed with env_remove, and not set on the command after
\* that, is not in the environment of the child.
C32_Original ==
    SpawnedEnv => \A k \in shist.removed : ChildEnv(Tracked)[k] = None

\* C33 as claimed: after env_clear the environment of the child holds the variables set
\* on the command after the clear, and no other.
C33_Original ==
    (SpawnedEnv /\ shist.cleared) =>
        \A k \in VarKeys : (ChildEnv(Tracked)[k] # None) <=> (k \in shist.after)

====
